---- MODULE Spec2Model ----
(***************************************************************************)
(* SlideSync: the slide tracker (SyncLoop), the instruction stream         *)
(* (SyncInstructions) and the driver events that reach them.               *)
(*                                                                         *)
(* The vision pipeline (keypoints, matching, RANSAC, the cost of a         *)
(* candidate) is an input of the tracker: every result the code branches   *)
(* on is drawn from a small set.  Everything the code computes from those  *)
(* results (counters, candidate lists, the instruction stream, the cache   *)
(* file, the processor and its latch) is computed as the code computes it. *)
(***************************************************************************)
EXTENDS Integers, Sequences, FiniteSets

(***************************************************************************)
(* Bounds of the model                                                     *)
(***************************************************************************)
MaxLength == 9        \* footage frame counts 0..MaxLength
MaxSlides == 3        \* slide decks of 1..MaxSlides pages
MaxDepth == 2         \* tick bodies that may be nested on the call stack
MaxCalls == 2         \* API calls made on a stream by the stream client
MaxStamp == 1         \* timestamps 0 and MaxStamp passed by the stream client
MaxFrameCalls == 11   \* calls of next_frame made by the footage client
MaxTrackFrames == 12  \* coarse frames of the footage the tracker is followed on
MaxDeck == 8          \* decks of 1..MaxDeck slides the candidate list is computed for
MaxMatches == 6       \* matches handed to the cost model, 0..MaxMatches
MaxCoord == 2         \* vertex coordinates of the Quads constructed, 0..MaxCoord
MaxIndex == 12        \* frame indexes 0..MaxIndex whose stamps are written and read

(***************************************************************************)
(* Program constants                                                       *)
(***************************************************************************)
frameskip == 7
min_matchsize == 5
largecost == 1000
reasonablecost == 40
FullScanAfter == 7
FullScanStep == 4
NearEnough == 3

\* unsigned int arithmetic wraps; the width is reduced to 16 bits to stay
\* inside the integers of the model checker, all values being far below it
UIntMod == 2^16
UAdd(a, b) == (a + b) % UIntMod
USub(a, b) == (a + UIntMod - b) % UIntMod

\* std::numeric_limits<double>::infinity(), above every finite cost
Infinity == 10^6

(***************************************************************************)
(* SyncInstructions: the instruction stream                                *)
(***************************************************************************)
Codes == {"Next", "Previous", "GoTo", "End"}

SyncInstruction(ts, code, data, relative) ==
    [timestamp |-> ts, code |-> code, data |-> data, relative |-> relative]

\* SyncInstructions(length, framerate)
NewStream(len, fps) ==
    [instructions |-> <<>>, framerate |-> fps, current_index |-> 0, length |-> len]

NextFailsMut(s) == s.current_index > USub(s.length, 1)
\* the guard of Next: current_index >= length - 1, in unsigned arithmetic
NextFails(s) == s.current_index >= USub(s.length, 1)

PreviousFailsMut(s) == s.current_index < 0
\* the guard of Previous: current_index < 1
PreviousFails(s) == s.current_index < 1

GoToFailsMut(s, index) == index > s.length

\* the guard of GoTo: index >= length
GoToFails(s, index) == index >= s.length

\* each call returns the pair of its return value and the stream it leaves
StreamNextMut(s, ts, relative) ==
    IF NextFails(s)
    THEN [ret |-> FALSE, s |-> s]
    ELSE [ret |-> TRUE,
          s |-> [s EXCEPT !.instructions = <<SyncInstruction(ts, "Next", 0, relative)>> \o @,
                          !.current_index = UAdd(@, 1)]]

StreamNext(s, ts, relative) ==
    IF NextFails(s)
    THEN [ret |-> FALSE, s |-> s]
    ELSE [ret |-> TRUE,
          s |-> [s EXCEPT !.instructions = Append(@, SyncInstruction(ts, "Next", 0, relative)),
                          !.current_index = UAdd(@, 1)]]

StreamPreviousMut(s, ts, relative) ==
    IF PreviousFails(s)
    THEN [ret |-> FALSE, s |-> s]
    ELSE [ret |-> TRUE,
          s |-> [s EXCEPT !.instructions = Append(@, SyncInstruction(ts, "Previous", 0, relative))]]

StreamPrevious(s, ts, relative) ==
    IF PreviousFails(s)
    THEN [ret |-> FALSE, s |-> s]
    ELSE [ret |-> TRUE,
          s |-> [s EXCEPT !.instructions = Append(@, SyncInstruction(ts, "Previous", 0, relative)),
                          !.current_index = USub(@, 1)]]

StreamGoToMut(s, ts, index, relative) ==
    IF GoToFails(s, index)
    THEN [ret |-> FALSE, s |-> s]
    ELSE [ret |-> TRUE,
          s |-> [s EXCEPT !.instructions = Append(@, SyncInstruction(ts, "GoTo", index, relative)),
                          !.current_index = UAdd(index, 1)]]

StreamGoTo(s, ts, index, relative) ==
    IF GoToFails(s, index)
    THEN [ret |-> FALSE, s |-> s]
    ELSE [ret |-> TRUE,
          s |-> [s EXCEPT !.instructions = Append(@, SyncInstruction(ts, "GoTo", index, relative)),
                          !.current_index = index]]

StreamEnd(s, ts, relative) ==
    [ret |-> TRUE,
     s |-> [s EXCEPT !.instructions = Append(@, SyncInstruction(ts, "End", 0, relative))]]

(***************************************************************************)
(* Text: a string is a sequence of one-character strings                   *)
(***************************************************************************)
DigitChars == <<"0", "1", "2", "3", "4", "5", "6", "7", "8", "9">>

IsDigit(c) == \E d \in 1..10 : DigitChars[d] = c

DigitVal(c) == (CHOOSE d \in 1..10 : DigitChars[d] = c) - 1

\* std::to_string of an unsigned number
RECURSIVE ToDigits(_)
ToDigits(n) ==
    IF n < 10 THEN <<DigitChars[n + 1]>>
    ELSE Append(ToDigits(n \div 10), DigitChars[(n % 10) + 1])

\* the number a run of digits reads as
RECURSIVE FromDigits(_)
FromDigits(str) ==
    IF str = <<>> THEN 0
    ELSE 10 * FromDigits(SubSeq(str, 1, Len(str) - 1)) + DigitVal(str[Len(str)])

\* the length of the run of digits of str that starts at position p
RECURSIVE DigitRun(_, _)
DigitRun(str, p) ==
    IF p <= Len(str) /\ IsDigit(str[p]) THEN 1 + DigitRun(str, p + 1) ELSE 0

\* std::isspace
IsSpace(c) == c \in {" ", "\n", "\t"}

\* the length of the run of whitespace of str that starts at position p
RECURSIVE SpaceRun(_, _)
SpaceRun(str, p) ==
    IF p <= Len(str) /\ IsSpace(str[p]) THEN 1 + SpaceRun(str, p + 1) ELSE 0

\* the length of the run of str from p up to the next newline
RECURSIVE LineRun(_, _)
LineRun(str, p) ==
    IF p <= Len(str) /\ str[p] # "\n" THEN 1 + LineRun(str, p + 1) ELSE 0

\* f is a function of one value, [v \in {value} |-> rest]: rest at that value,
\* the value being computed once, as each read of a chain of reads leaves the
\* stream where the next one starts
With(f) == CHOOSE result \in {g[CHOOSE v \in DOMAIN g : TRUE] : g \in {f}} : TRUE

\* a number as the standard library reads it: an optional sign, then digits
ReadNumber(str, p) ==
    LET signed == p <= Len(str) /\ str[p] \in {"+", "-"}
        q      == IF signed THEN p + 1 ELSE p
        n      == DigitRun(str, q)
    IN  [ok   |-> n > 0,
         neg  |-> signed /\ str[p] = "-",
         val  |-> FromDigits(SubSeq(str, q, q + n - 1)),
         next |-> q + n]

\* stream >> unsigned, without skipping whitespace: fails on no digit, and a
\* "-" negates in unsigned arithmetic
ReadUInt(str, p) ==
    With([r \in {ReadNumber(str, p)} |->
        [ok |-> r.ok, val |-> IF r.neg THEN USub(0, r.val) ELSE r.val, next |-> r.next]])

\* stream >> bool, without skipping whitespace: a number that is 0 or 1
ReadBool(str, p) ==
    With([r \in {ReadNumber(str, p)} |->
        [ok |-> r.ok /\ (r.val = 0 \/ (r.val = 1 /\ ~r.neg)), next |-> r.next]])

\* stream >> Skip(literal), the literal being the whitespace ws followed by
\* word: the whitespace of the stream is consumed and must end with ws, word
\* must follow, and the closing "stream >> skipws" names the local bool
\* skipws, so a bool is read from the stream right after the word
Skip(ws, word, str, p) ==
    With([n \in {SpaceRun(str, p)} |->
    With([b \in {ReadBool(str, p + n + Len(word))} |->
        LET q == p + n
            e == q + Len(word)
        IN  [ok   |-> /\ n >= Len(ws)
                      /\ SubSeq(str, q - Len(ws), q - 1) = ws
                      /\ e - 1 <= Len(str)
                      /\ SubSeq(str, q, e - 1) = word
                      /\ b.ok,
             next |-> b.next]])])

\* std::stoi: whitespace, an optional sign, digits; what follows is ignored;
\* ok = FALSE is std::invalid_argument
StoI(str) ==
    LET r == ReadNumber(str, 1 + SpaceRun(str, 1))
    IN  [ok |-> r.ok, val |-> IF r.neg THEN 0 - r.val ELSE r.val]

Fill(n, fill) == [i \in 1..n |-> fill]

\* pad: nfill = size - text.length() is unsigned, so a text longer than size
\* asks for a string of about UIntMod fill characters, marked "overlong"
pad(text, fill, size) ==
    IF Len(text) > size THEN <<"overlong">> \o text
    ELSE Fill(size - Len(text), fill) \o text

RECURSIVE ncharsFrom(_, _, _)
ncharsFrom(x, power, n) ==
    IF x >= power THEN ncharsFrom(x, power * 10, n + 1) ELSE n

nchars(x) == IF x = 0 THEN 1 ELSE ncharsFrom(x, 1, 0)

index2timestamp(index, framerate) ==
    IF framerate = 0 THEN <<>>
    ELSE LET frames       == index % framerate
             totalseconds == index \div framerate
             seconds      == totalseconds % 60
             totalminutes == totalseconds \div 60
             minutes      == totalminutes % 60
             hours        == totalminutes \div 60
         IN  pad(ToDigits(hours), "0", 2) \o <<":">> \o
             pad(ToDigits(minutes), "0", 2) \o <<":">> \o
             pad(ToDigits(seconds), "0", 2) \o <<".">> \o
             pad(ToDigits(frames), "0", nchars(framerate))

\* hours Skip(":") minutes Skip(":") seconds Skip(".") frames, read without
\* skipping whitespace; ok = FALSE is the ios_base::failure of the reader
timestamp2index(timestamp, framerate) ==
    With([h \in {ReadUInt(timestamp, 1)} |->
    With([c1 \in {Skip(<<>>, <<":">>, timestamp, h.next)} |->
    With([m \in {ReadUInt(timestamp, c1.next)} |->
    With([c2 \in {Skip(<<>>, <<":">>, timestamp, m.next)} |->
    With([s \in {ReadUInt(timestamp, c2.next)} |->
    With([c3 \in {Skip(<<>>, <<".">>, timestamp, s.next)} |->
    With([f \in {ReadUInt(timestamp, c3.next)} |->
        [ok  |-> h.ok /\ c1.ok /\ m.ok /\ c2.ok /\ s.ok /\ c3.ok /\ f.ok,
         val |-> ((h.val * 60 + m.val) * 60 + s.val) * framerate + f.val]])])])])])])])

(***************************************************************************)
(* The sync script, as the text of the file                                *)
(***************************************************************************)
NSlidesWord == <<"n", "s", "l", "i", "d", "e", "s">>
FramerateWord == <<"f", "r", "a", "m", "e", "r", "a", "t", "e">>
NInstructionsWord == <<"n", "i", "n", "s", "t", "r", "u", "c", "t", "i", "o", "n", "s">>
NextWord == <<"n", "e", "x", "t">>
PreviousWord == <<"p", "r", "e", "v", "i", "o", "u", "s">>
EndWord == <<"e", "n", "d">>
GoToWord == <<"g", "o", " ", "t", "o", " ">>

BoolAsInt(b) == IF b THEN 1 ELSE 0

\* the serializer's test for the "+" prefix: instruction.relative < 0
WritesPlus(relative) == BoolAsInt(relative) < 0

\* one line of ToString
InstructionLine(instruction, framerate) ==
    <<"[">> \o
    (IF WritesPlus(instruction.relative) THEN <<"+">> ELSE <<>>) \o
    (IF framerate # 0
     THEN index2timestamp(instruction.timestamp, framerate)
     ELSE ToDigits(instruction.timestamp)) \o
    <<"]", ":", " ">> \o
    (CASE instruction.code = "GoTo"     -> GoToWord \o ToDigits(UAdd(instruction.data, 1))
       [] instruction.code = "Next"     -> NextWord
       [] instruction.code = "Previous" -> PreviousWord
       [] instruction.code = "End"      -> EndWord
       [] OTHER                         -> <<"unrecognized">>) \o
    <<"\n">>

\* the lines of the instructions i.. of ToString
RECURSIVE InstructionLines(_, _, _)
InstructionLines(instructions, framerate, i) ==
    IF i > Len(instructions) THEN <<>>
    ELSE InstructionLine(instructions[i], framerate) \o
         InstructionLines(instructions, framerate, i + 1)

HeaderLine(word, value) == word \o <<" ", "=", " ">> \o ToDigits(value) \o <<"\n">>

ToString(s) ==
    HeaderLine(NSlidesWord, s.length) \o
    HeaderLine(FramerateWord, s.framerate) \o
    HeaderLine(NInstructionsWord, Len(s.instructions)) \o
    InstructionLines(s.instructions, s.framerate, 1)

\* descriptor >> Skip(word) >> Skip("=") >> value >> Skip("\n")
HeaderField(word, str, p) ==
    With([s1 \in {Skip(<<>>, word, str, p)} |->
    With([s2 \in {Skip(<<>>, <<"=">>, str, s1.next)} |->
    With([v \in {ReadUInt(str, s2.next)} |->
    With([s3 \in {Skip(<<"\n">>, <<>>, str, v.next)} |->
        [ok |-> s1.ok /\ s2.ok /\ v.ok /\ s3.ok, val |-> v.val, next |-> s3.next]])])])])

\* the stamp of a line: 11 characters through timestamp2index when the
\* framerate is known, an unsigned number otherwise
ReadStamp(str, q, framerate) ==
    IF framerate # 0
    THEN IF q + 10 > Len(str)
         THEN [ok |-> FALSE, val |-> 0, next |-> q]
         ELSE With([t \in {timestamp2index(SubSeq(str, q, q + 10), framerate)} |->
                  [ok |-> t.ok, val |-> t.val, next |-> q + 11]])
    ELSE ReadUInt(str, q)

\* one turn of the parser's loop, from position p: status "ok" (an
\* instruction), "skip" (continue), "failure" (std::ios_base::failure) or
\* "exception" (what std::stoi throws)
ParseLine(str, p, framerate, len) ==
    With([s1 \in {Skip(<<>>, <<"[">>, str, p)} |->
    With([s2 \in {Skip(<<>>, <<>>, str, s1.next)} |->
    With([relative \in {s2.next <= Len(str) /\ str[s2.next] = "+"} |->
    With([stamp \in {ReadStamp(str, IF relative THEN s2.next + 1 ELSE s2.next, framerate)} |->
    With([s3 \in {Skip(<<>>, <<"]">>, str, stamp.next)} |->
    With([s4 \in {Skip(<<>>, <<":">>, str, s3.next)} |->
    With([s5 \in {Skip(<<>>, <<>>, str, s4.next)} |->
    With([n \in {LineRun(str, s5.next)} |->
    With([instruction_str \in {SubSeq(str, s5.next, s5.next + n - 1)} |->
        LET readable == /\ s1.ok /\ s2.ok /\ stamp.ok /\ s3.ok /\ s4.ok /\ s5.ok
                        /\ s5.next <= Len(str)
            made(code, data) ==
                [status |-> "ok", next |-> s5.next + n + 1,
                 instruction |-> SyncInstruction(stamp.val, code, data, relative)]
            none(status) ==
                [status |-> status, next |-> s5.next + n + 1,
                 instruction |-> SyncInstruction(0, "End", 0, FALSE)]
        IN  IF ~readable THEN [none("failure") EXCEPT !.next = p]
            ELSE IF instruction_str = NextWord THEN made("Next", 0)
            ELSE IF instruction_str = PreviousWord THEN made("Previous", 0)
            ELSE IF instruction_str = EndWord THEN made("End", 0)
            ELSE IF Len(instruction_str) >= 6 /\ SubSeq(instruction_str, 1, 6) = GoToWord
            THEN With([r \in {StoI(SubSeq(instruction_str, 7, Len(instruction_str)))} |->
                     LET data == IF r.val - 1 < 0 THEN r.val - 1 + UIntMod ELSE r.val - 1
                     IN  IF ~r.ok THEN none("exception")
                         ELSE IF data >= len THEN none("skip")
                         ELSE made("GoTo", data)])
            ELSE none("skip")])])])])])])])])])

\* the turns i..ninstructions of the loop; the first failure ends the parse
RECURSIVE ParseLines(_, _, _, _, _, _, _)
ParseLines(str, p, i, ninstructions, framerate, len, acc) ==
    IF i > ninstructions THEN [status |-> "ok", instructions |-> acc]
    ELSE With([r \in {ParseLine(str, p, framerate, len)} |->
             CASE r.status = "ok" ->
                    ParseLines(str, r.next, i + 1, ninstructions, framerate, len,
                               Append(acc, r.instruction))
               [] r.status = "skip" ->
                    ParseLines(str, r.next, i + 1, ninstructions, framerate, len, acc)
               [] OTHER -> [status |-> r.status, instructions |-> acc]])

\* SyncInstructions(std::istream&)
Parse(text) ==
    With([a \in {HeaderField(NSlidesWord, text, 1)} |->
    With([b \in {HeaderField(FramerateWord, text, a.next)} |->
    With([c \in {HeaderField(NInstructionsWord, text, b.next)} |->
        IF ~(a.ok /\ b.ok /\ c.ok)
        THEN [status |-> "failure", s |-> NewStream(0, 0)]
        ELSE With([r \in {ParseLines(text, c.next, 1, c.val, b.val, a.val, <<>>)} |->
                 [status |-> r.status,
                  s |-> [instructions  |-> r.instructions,
                         framerate     |-> b.val,
                         current_index |-> 0,
                         length        |-> a.val]]])])])])

(***************************************************************************)
(* State                                                                   *)
(***************************************************************************)
VARIABLES
    nslides,            \* slides->size()
    cache,              \* the cache file: whether it exists, and its text
    cache_writes,       \* how many times the cache file has been written
    reads,              \* footage frames decoded so far
    timer,              \* wxTimer::IsRunning() of the loop
    window,             \* the window and its canvas exist
    appstate,           \* the driver's SyncAppState
    posted,             \* LoopFinished events posted by the tracker
    handled,            \* LoopFinished events handled by the driver
    preview,            \* the frame last shown on the canvas, -1 for none
    escaped,            \* exceptions that left Notify
    processor,          \* SyncLoop::processor
    processing,         \* SyncLoop::processing, the re-entrancy latch
    frame_index,
    coarse_index,
    length,             \* SyncLoop::length, the footage frame count
    slide_index,
    nearcount,
    badcount,
    ref,                \* the reference state (keyframe)
    prev_slidepose,
    sync_instructions,
    stack,              \* the tick bodies in flight, innermost last
    init_runs,          \* how many times the body of initialize was entered
    call,               \* the last call made on sync_instructions
    hist,               \* what the frames tracked so far did
    gen,                \* the GenLoop that renders the stream, once constructed
    event               \* the last event

driver_vars  == <<timer, window, appstate, handled>>
files_vars   == <<cache, cache_writes, reads, posted, preview>>
tracker_vars == <<processor, processing, frame_index, coarse_index, length, slide_index,
                  nearcount, badcount, ref, prev_slidepose, sync_instructions>>
vars == <<nslides, cache, cache_writes, reads, timer, window, appstate, posted, handled,
          preview, escaped, processor, processing, frame_index, coarse_index, length,
          slide_index, nearcount, badcount, ref, prev_slidepose, sync_instructions,
          stack, init_runs, call, hist, gen, event>>

(***************************************************************************)
(* Quads are inputs of the tracker: a pose is named by what produced it    *)
(***************************************************************************)
\* Quad(), the all-zero quad
ZeroQuad == [kind |-> "zero", frame |-> 0, slide |-> 0]

\* the canonical rectangle of a slide through the homography of a frame
SlideQuad(frame, slide) == [kind |-> "slide", frame |-> frame, slide |-> slide]

\* the reference pose through the differential homography of a frame
DiffQuad(frame) == [kind |-> "diff", frame |-> frame, slide |-> 0]

\* quadperspective: an empty homography sinks the quad into the origin
quadperspective(quad, homography_empty) ==
    IF homography_empty THEN ZeroQuad ELSE quad

\* the reference state before Init installs one
NoRef ==
    [frame |-> -1, keypoints |-> -1, descriptors |-> -1, slidepose |-> ZeroQuad,
     quad_of |-> -1, quad_pose |-> ZeroQuad, quad_convex |-> TRUE]

\* frame, keypoints, descriptors, slidepose and the quadfilter sublists of
\* one frame; quad_convex is ConvexClockwise() of the Quad the sublists were
\* filtered with, true for the pose of a good match (its matchcost is
\* finite) and whatever the homography gives for the pose of initialize
RefOf(frame, slidepose) ==
    [frame |-> frame, keypoints |-> frame, descriptors |-> frame, slidepose |-> slidepose,
     quad_of |-> frame, quad_pose |-> slidepose, quad_convex |-> TRUE]

(***************************************************************************)
(* Footage: a seekable source of exactly length frames                     *)
(***************************************************************************)
FootageFps == {0, 24}

\* (*footage) >> frame at position pos: empty past the last frame
FrameEmpty(pos) == pos >= length

(***************************************************************************)
(* The cache file as the tracker may find it                               *)
(***************************************************************************)
\* an empty file
NoText == <<>>

\* a script a previous run left: one "next" at frame 8
OldScript(n, fps) == ToString(StreamNext(NewStream(n + 1, fps), 8, FALSE).s)

\* a header line the parser reads: a 0 or 1 after each literal, and a sign
\* to start the value
ReadableHeaderLine(word, value) ==
    word \o <<"0", "=", "0", "+">> \o ToDigits(value) \o <<"\n", "0">>

ReadableHeader(n, fps, ninstructions) ==
    ReadableHeaderLine(NSlidesWord, n) \o
    ReadableHeaderLine(FramerateWord, fps) \o
    ReadableHeaderLine(NInstructionsWord, ninstructions)

\* an instruction line the parser reads when the framerate is 0, at frame 8
ReadableLine(instruction_str) == <<"[", "0", " ", "0", "+", "8", "]", "0", ":", "0", " ", "0">> \o instruction_str \o <<"\n">>

\* a script the parser reads: one "next" when the framerate is 0 (no stamp of
\* 11 characters is readable, so none otherwise)
ReadableScript(n, fps) ==
    IF fps = 0 THEN ReadableHeader(n, fps, 1) \o ReadableLine(NextWord)
    ELSE ReadableHeader(n, fps, 0)

\* a script cut short: it announces one instruction and holds none
CutScript(n, fps) == ReadableHeader(n, fps, 1)

\* a script with a "go to" whose argument is no number
BadArgScript(n, fps) == ReadableHeader(n, 0, 1) \o ReadableLine(GoToWord \o <<"x">>)

CacheInputs(n, fps) ==
    {[exists |-> FALSE, text |-> NoText],
     [exists |-> TRUE, text |-> NoText],
     [exists |-> TRUE, text |-> OldScript(n, fps)],
     [exists |-> TRUE, text |-> ReadableScript(n, fps)],
     [exists |-> TRUE, text |-> CutScript(n, fps)],
     [exists |-> TRUE, text |-> BadArgScript(n, fps)]}

\* the history of the frames tracked: how many frames failed in a row up to
\* the last one, how many in a row had a salvage cost below reasonablecost,
\* and of the last frame: its index, the verdict, whether the slide it chose
\* differs from the current one, the slide, whether the deviation or the
\* deformation of its pose was large, its pose, and the pose of the last
\* keyframe
NoHist ==
    [failed_run |-> 0, near_run |-> 0, frame |-> 0 - 1, goodmatch |-> TRUE,
     changed |-> FALSE, slide |-> 0, large |-> FALSE, slidepose |-> ZeroQuad,
     kf_pose |-> ZeroQuad]

\* no GenLoop has been constructed
NoGen == [built |-> FALSE]

NoCall == [op |-> "none", timestamp |-> 0, index |-> 0, relative |-> FALSE, ret |-> FALSE]

\* the record of a call: its arguments and what it returned (a refused call
\* of the stream changes nothing, and its record keeps the operation, the
\* index and the result)
Called(op, ts, index, relative, ret) ==
    [op |-> op, timestamp |-> ts, index |-> index, relative |-> relative, ret |-> ret]

(***************************************************************************)
(* Init: the state after SlideSyncApp::OnInit constructed the SyncLoop     *)
(* and started its timer                                                   *)
(***************************************************************************)
Init ==
    /\ nslides \in 1..MaxSlides
    /\ length \in 0..MaxLength
    /\ \E fps \in FootageFps :
          /\ sync_instructions = NewStream(nslides, fps)
          /\ cache \in CacheInputs(nslides, fps)
    /\ cache_writes = 0
    /\ reads = 0
    /\ timer = TRUE
    /\ window = TRUE
    /\ appstate = "Synchronizing"
    /\ posted = 0
    /\ handled = 0
    /\ preview = -1
    /\ escaped = FALSE
    /\ processor = "initialize"
    /\ processing = FALSE
    /\ frame_index = 0
    /\ coarse_index = 0
    /\ slide_index = 0
    /\ nearcount = 0
    /\ badcount = 0
    /\ ref = NoRef
    /\ prev_slidepose = ZeroQuad
    /\ stack = <<>>
    /\ init_runs = 0
    /\ call = NoCall
    /\ hist = NoHist
    /\ gen = NoGen
    /\ event = "start"

(***************************************************************************)
(* Tick bodies.  A body runs from one wxTheApp->Yield(true) to the next in *)
(* one step; pc names the yield it is suspended in ("entry": called, not   *)
(* yet run).  The locals of initialize and track share one record.         *)
(***************************************************************************)
\* quad_convex is ConvexClockwise() of the Quad track() handed to quadfilter.
\* cost_alt where the salvage was not computed
NoCost == 0 - 1

NewBody(proc) ==
    [proc |-> proc, pc |-> "entry", i |-> 0, frame |-> -1,
     homography_empty |-> TRUE, slidepose |-> ZeroQuad,
     hardframe |-> FALSE, make_keyframe |-> FALSE, goodmatch |-> TRUE,
     new_slide_index |-> 0, candidates |-> <<>>,
     bestslide |-> 0, bestcost |-> Infinity, bestslidepose |-> ZeroQuad,
     best_found |-> FALSE, cost_alt |-> NoCost, quad_convex |-> TRUE]

Top == stack[Len(stack)]

SetTop(body) == [stack EXCEPT ![Len(stack)] = body]

At(proc, pcs) == stack # <<>> /\ Top.proc = proc /\ Top.pc \in pcs

\* the event loop dispatches between ticks and inside a Yield
CanDispatch == IF stack = <<>> THEN TRUE ELSE Top.pc # "entry"

\* the processor returns into Notify, which clears the latch
Return ==
    /\ stack' = SubSeq(stack, 1, Len(stack) - 1)
    /\ processing' = FALSE

\* an exception leaves the processor and Notify: every body in flight is
\* unwound, the latch stays as it is, and the application either ends
\* (unhandled exception) or carries on (the exception is swallowed by the
\* toolkit's main-loop handler)
Throw ==
    /\ stack' = <<>>
    /\ escaped' = TRUE
    /\ \E survives \in BOOLEAN :
          /\ timer' = (timer /\ survives)
          /\ window' = (window /\ survives)
    /\ UNCHANGED processing

(***************************************************************************)
(* Driver events                                                           *)
(***************************************************************************)
RejectsMut(latch) == FALSE
\* SyncLoop::Notify: if (processing) return;
Rejects(latch) == latch

\* the timer fires: SyncLoop::Notify
Notify ==
    /\ timer
    /\ CanDispatch
    /\ event' = "Notify"
    /\ IF Rejects(processing)
       THEN UNCHANGED <<processing, stack>>
       ELSE /\ Len(stack) < MaxDepth
            /\ processing' = TRUE
            /\ stack' = Append(stack, NewBody(processor))
    /\ UNCHANGED <<nslides, cache, cache_writes, reads, timer, window, appstate, posted,
                   handled, preview, escaped, processor, frame_index, coarse_index, length,
                   slide_index, nearcount, badcount, ref, prev_slidepose, sync_instructions,
                   init_runs, call, hist, gen>>

\* the user closes the window: SlideSyncWindow::Destroy stops the timer
Destroy ==
    /\ window
    /\ CanDispatch
    /\ window' = FALSE
    /\ timer' = FALSE
    /\ event' = "Destroy"
    /\ UNCHANGED <<nslides, cache, cache_writes, reads, appstate, posted, handled, preview,
                   escaped, processor, processing, frame_index, coarse_index, length,
                   slide_index, nearcount, badcount, ref, prev_slidepose, sync_instructions,
                   stack, init_runs, call, hist, gen>>

\* SlideSyncApp::OnSyncFinished handles a posted LoopFinished
OnSyncFinished ==
    /\ window
    /\ handled < posted
    /\ CanDispatch
    /\ handled' = handled + 1
    /\ timer' = FALSE
    /\ appstate' = "GeneratingVideo"
    /\ event' = "OnSyncFinished"
    /\ UNCHANGED <<nslides, cache, cache_writes, reads, window, posted, preview,
                   escaped, processor, processing, frame_index, coarse_index, length,
                   slide_index, nearcount, badcount, ref, prev_slidepose, sync_instructions,
                   stack, init_runs, call, hist, gen>>

(***************************************************************************)
(* SyncLoop::initialize                                                    *)
(***************************************************************************)
\* the cache file is missing, or it is there and does not parse
CacheMiss == ~cache.exists \/ Parse(cache.text).status = "failure"

\* one turn of the slide loop: detectAndCompute, then Yield
InitDetectSlide ==
    /\ At("initialize", {"entry", "slide"})
    /\ Top.i < nslides
    /\ stack' = SetTop([Top EXCEPT !.pc = "slide", !.i = @ + 1])
    /\ init_runs' = IF Top.pc = "entry" THEN init_runs + 1 ELSE init_runs
    /\ event' = "InitDetectSlide"
    /\ UNCHANGED <<nslides, cache, cache_writes, reads, timer, window, appstate, posted,
                   handled, preview, escaped, processor, processing, frame_index,
                   coarse_index, length, slide_index, nearcount, badcount, ref,
                   prev_slidepose, sync_instructions, call, hist, gen>>

InitCacheHitMut ==
    /\ At("initialize", {"slide"})
    /\ Top.i = nslides
    /\ cache.exists
    /\ Parse(cache.text).status = "ok"
    /\ sync_instructions' = Parse(cache.text).s
    /\ posted' = posted + 1
    /\ reads' = reads + 1
    /\ stack' = SetTop([Top EXCEPT !.pc = "detect", !.frame = 0])
    /\ event' = "InitCacheHit"
    /\ UNCHANGED <<nslides, cache, cache_writes, timer, window, appstate, handled,
                   preview, escaped, processor, processing, frame_index, coarse_index,
                   length, slide_index, nearcount, badcount, ref, prev_slidepose,
                   init_runs, call, hist, gen>>

\* the cache file parses: adopt it, post LoopFinished, go idle
InitCacheHit ==
    /\ At("initialize", {"slide"})
    /\ Top.i = nslides
    /\ cache.exists
    /\ Parse(cache.text).status = "ok"
    /\ sync_instructions' = Parse(cache.text).s
    /\ posted' = posted + 1
    /\ processor' = "idle"
    /\ Return
    /\ event' = "InitCacheHit"
    /\ UNCHANGED <<nslides, cache, cache_writes, reads, timer, window, appstate, handled,
                   preview, escaped, frame_index, coarse_index, length, slide_index,
                   nearcount, badcount, ref, prev_slidepose, init_runs, call, hist, gen>>

\* the parser throws what the catch clause does not name
InitCacheThrow ==
    /\ At("initialize", {"slide"})
    /\ Top.i = nslides
    /\ cache.exists
    /\ Parse(cache.text).status = "exception"
    /\ Throw
    /\ event' = "InitCacheThrow"
    /\ UNCHANGED <<nslides, cache, cache_writes, reads, appstate, posted, handled, preview,
                   processor, frame_index, coarse_index, length, slide_index, nearcount,
                   badcount, ref, prev_slidepose, sync_instructions, init_runs, call, hist, gen>>

\* peek the first frame, rewind, grayscale, detect, Yield
InitPeekFrame ==
    /\ At("initialize", {"slide"})
    /\ Top.i = nslides
    /\ CacheMiss
    /\ ~FrameEmpty(0)
    /\ reads' = reads + 1
    /\ stack' = SetTop([Top EXCEPT !.pc = "detect", !.frame = 0])
    /\ event' = "InitPeekFrame"
    /\ UNCHANGED <<nslides, cache, cache_writes, timer, window, appstate, posted, handled,
                   preview, escaped, processor, processing, frame_index, coarse_index,
                   length, slide_index, nearcount, badcount, ref, prev_slidepose,
                   sync_instructions, init_runs, call, hist, gen>>

\* the first frame is empty: cv::cvtColor throws cv::Exception
InitPeekThrow ==
    /\ At("initialize", {"slide"})
    /\ Top.i = nslides
    /\ CacheMiss
    /\ FrameEmpty(0)
    /\ reads' = reads + 1
    /\ Throw
    /\ event' = "InitPeekThrow"
    /\ UNCHANGED <<nslides, cache, cache_writes, appstate, posted, handled, preview,
                   processor, frame_index, coarse_index, length, slide_index, nearcount,
                   badcount, ref, prev_slidepose, sync_instructions, init_runs, call, hist, gen>>

\* match(slide 0, frame 0), Yield
InitMatch ==
    /\ At("initialize", {"detect"})
    /\ stack' = SetTop([Top EXCEPT !.pc = "match"])
    /\ event' = "InitMatch"
    /\ UNCHANGED <<nslides, cache, cache_writes, reads, timer, window, appstate, posted,
                   handled, preview, escaped, processor, processing, frame_index,
                   coarse_index, length, slide_index, nearcount, badcount, ref,
                   prev_slidepose, sync_instructions, init_runs, call, hist, gen>>

\* refineHomography, Yield
InitRefine ==
    /\ At("initialize", {"match"})
    /\ \E empty \in BOOLEAN :
          stack' = SetTop([Top EXCEPT !.pc = "homography", !.homography_empty = empty])
    /\ event' = "InitRefine"
    /\ UNCHANGED <<nslides, cache, cache_writes, reads, timer, window, appstate, posted,
                   handled, preview, escaped, processor, processing, frame_index,
                   coarse_index, length, slide_index, nearcount, badcount, ref,
                   prev_slidepose, sync_instructions, init_runs, call, hist, gen>>

InitNoLockMut ==
    /\ At("initialize", {"homography"})
    /\ Top.homography_empty
    /\ Return
    /\ event' = "InitNoLock"
    /\ UNCHANGED <<nslides, cache, cache_writes, reads, timer, window, appstate, posted,
                   handled, preview, escaped, processor, frame_index, coarse_index, length,
                   slide_index, nearcount, badcount, ref, prev_slidepose,
                   sync_instructions, init_runs, call, hist, gen>>

InitNoLockPostMut ==
    /\ At("initialize", {"homography"})
    /\ Top.homography_empty
    /\ processor' = "idle"
    /\ posted' = posted + 1
    /\ Return
    /\ event' = "InitNoLock"
    /\ UNCHANGED <<nslides, cache, cache_writes, reads, timer, window, appstate,
                   handled, preview, escaped, frame_index, coarse_index, length,
                   slide_index, nearcount, badcount, ref, prev_slidepose,
                   sync_instructions, init_runs, call, hist, gen>>

\* no robust matching: go idle
InitNoLock ==
    /\ At("initialize", {"homography"})
    /\ Top.homography_empty
    /\ processor' = "idle"
    /\ Return
    /\ event' = "InitNoLock"
    /\ UNCHANGED <<nslides, cache, cache_writes, reads, timer, window, appstate, posted,
                   handled, preview, escaped, frame_index, coarse_index, length,
                   slide_index, nearcount, badcount, ref, prev_slidepose,
                   sync_instructions, init_runs, call, hist, gen>>

\* install the reference state of frame 0 and start tracking
InitLock ==
    /\ At("initialize", {"homography"})
    /\ ~Top.homography_empty
    /\ LET slidepose == quadperspective(SlideQuad(0, 0), Top.homography_empty)
       IN  /\ \E convexclockwise \in BOOLEAN :
                 ref' = [RefOf(Top.frame, slidepose) EXCEPT !.quad_convex = convexclockwise]
           /\ prev_slidepose' = slidepose
           /\ hist' = [hist EXCEPT !.slidepose = slidepose, !.kf_pose = slidepose]
           /\ UNCHANGED gen
    /\ processor' = "track"
    /\ Return
    /\ event' = "InitLock"
    /\ UNCHANGED <<nslides, cache, cache_writes, reads, timer, window, appstate, posted,
                   handled, preview, escaped, frame_index, coarse_index, length,
                   slide_index, nearcount, badcount, sync_instructions, init_runs, call>>

(***************************************************************************)
(* SyncLoop::idle                                                          *)
(***************************************************************************)
IdleMut ==
    /\ At("idle", {"entry"})
    /\ posted' = posted + 1
    /\ Return
    /\ event' = "Idle"
    /\ UNCHANGED <<nslides, cache, cache_writes, reads, timer, window, appstate,
                   handled, preview, escaped, processor, frame_index, coarse_index, length,
                   slide_index, nearcount, badcount, ref, prev_slidepose,
                   sync_instructions, init_runs, call, hist, gen>>

Idle ==
    /\ At("idle", {"entry"})
    /\ Return
    /\ event' = "Idle"
    /\ UNCHANGED <<nslides, cache, cache_writes, reads, timer, window, appstate, posted,
                   handled, preview, escaped, processor, frame_index, coarse_index, length,
                   slide_index, nearcount, badcount, ref, prev_slidepose,
                   sync_instructions, init_runs, call, hist, gen>>

(***************************************************************************)
(* SyncLoop::next_frame and SyncLoop::track                                *)
(***************************************************************************)

next_frameMut ==
    IF frame_index >= length
    THEN [frame |-> -1, frame_index |-> frame_index, coarse_index |-> coarse_index,
          reads |-> reads]
    ELSE [frame |-> IF FrameEmpty(frame_index) THEN -1 ELSE frame_index,
          frame_index |-> UAdd(frame_index, frameskip),
          coarse_index |-> UAdd(coarse_index, 1),
          reads |-> reads + 1]

\* the frame next_frame returns (-1: empty) and the indices it leaves
next_frame ==
    IF frame_index >= length
    THEN [frame |-> -1, frame_index |-> frame_index, coarse_index |-> coarse_index,
          reads |-> reads]
    ELSE [frame |-> IF FrameEmpty(frame_index) THEN -1 ELSE frame_index,
          frame_index |-> UAdd(frame_index, frameskip + 1),
          coarse_index |-> UAdd(coarse_index, 1),
          reads |-> reads + 1]

\* the costs a candidate may be given: reasonable, acceptable, too large,
\* infinite
CostSamples == {10, 100, largecost, Infinity}

InRange(c, n) == c >= 0 /\ c < n

CandidatesSignedMut(s, bad, n) ==
    IF bad < FullScanAfter
    THEN SelectSeq(<<s, s + 1, s - 1, s + 2, s - 2, s + 3, s - 3>>,
                   LAMBDA c : c < n)
    ELSE [k \in 1..n |-> k - 1]

CandidatesLateMut(s, bad, n) ==
    IF bad <= FullScanAfter
    THEN SelectSeq(<<s, UAdd(s, 1), USub(s, 1), UAdd(s, 2), USub(s, 2),
                     UAdd(s, 3), USub(s, 3)>>,
                   LAMBDA c : InRange(c, n))
    ELSE [k \in 1..n |-> k - 1]

\* the candidate slides of a hard frame, in the order they are tried
Candidates(s, bad, n) ==
    IF bad < FullScanAfter
    THEN SelectSeq(<<s, UAdd(s, 1), USub(s, 1), UAdd(s, 2), USub(s, 2),
                     UAdd(s, 3), USub(s, 3)>>,
                   LAMBDA c : InRange(c, n))
    ELSE [k \in 1..n |-> k - 1]

TrackEndYieldMut ==
    /\ At("track", {"entry"})
    /\ next_frame.frame = -1
    /\ frame_index' = next_frame.frame_index
    /\ coarse_index' = next_frame.coarse_index
    /\ reads' = next_frame.reads
    /\ processor' = "idle"
    /\ cache' = [exists |-> TRUE, text |-> ToString(sync_instructions)]
    /\ cache_writes' = cache_writes + 1
    /\ posted' = posted + 1
    /\ stack' = SetTop([Top EXCEPT !.pc = "emit"])
    /\ event' = "TrackEnd"
    /\ UNCHANGED <<nslides, timer, window, appstate, handled, preview, escaped, length,
                   slide_index, nearcount, badcount, ref, prev_slidepose, processing,
                   sync_instructions, init_runs, call, hist, gen>>

\* the end of the video: go idle, write the cache file, post LoopFinished
TrackEnd ==
    /\ At("track", {"entry"})
    /\ next_frame.frame = -1
    /\ frame_index' = next_frame.frame_index
    /\ coarse_index' = next_frame.coarse_index
    /\ reads' = next_frame.reads
    /\ processor' = "idle"
    /\ cache' = [exists |-> TRUE, text |-> ToString(sync_instructions)]
    /\ cache_writes' = cache_writes + 1
    /\ posted' = posted + 1
    /\ Return
    /\ event' = "TrackEnd"
    /\ UNCHANGED <<nslides, timer, window, appstate, handled, preview, escaped, length,
                   slide_index, nearcount, badcount, ref, prev_slidepose,
                   sync_instructions, init_runs, call, hist, gen>>

\* a frame was read: grayscale, detect, Yield
TrackFrame ==
    /\ At("track", {"entry"})
    /\ next_frame.frame # -1
    /\ frame_index' = next_frame.frame_index
    /\ coarse_index' = next_frame.coarse_index
    /\ reads' = next_frame.reads
    /\ stack' = SetTop([Top EXCEPT !.pc = "detect", !.frame = next_frame.frame,
                                   !.slidepose = ref.slidepose])
    /\ event' = "TrackFrame"
    /\ UNCHANGED <<nslides, cache, cache_writes, timer, window, appstate, posted, handled,
                   preview, escaped, processor, processing, length, slide_index, nearcount,
                   badcount, ref, prev_slidepose, sync_instructions, init_runs, call, hist, gen>>

\* match(reference, frame), Yield
TrackMatch ==
    /\ At("track", {"detect"})
    /\ stack' = SetTop([Top EXCEPT !.pc = "match"])
    /\ event' = "TrackMatch"
    /\ UNCHANGED <<nslides, cache, cache_writes, reads, timer, window, appstate, posted,
                   handled, preview, escaped, processor, processing, frame_index,
                   coarse_index, length, slide_index, nearcount, badcount, ref,
                   prev_slidepose, sync_instructions, init_runs, call, hist, gen>>

\* refineHomography, the pose through it, quadfilter, quad_matches, Yield
TrackRefine ==
    /\ At("track", {"match"})
    /\ \E empty, convexclockwise \in BOOLEAN :
          /\ empty => convexclockwise
          /\ stack' = SetTop([Top EXCEPT
                                 !.pc = "quad",
                                 !.homography_empty = empty,
                                 !.slidepose = quadperspective(DiffQuad(Top.frame), empty),
                                 !.quad_convex = convexclockwise])
    /\ event' = "TrackRefine"
    /\ UNCHANGED <<nslides, cache, cache_writes, reads, timer, window, appstate, posted,
                   handled, preview, escaped, processor, processing, frame_index,
                   coarse_index, length, slide_index, nearcount, badcount, ref,
                   prev_slidepose, sync_instructions, init_runs, call, hist, gen>>

\* the history after the frame of a track body, the keyframe decided
Tracked(body, large, make_keyframe) ==
    [failed_run |-> IF body.goodmatch THEN 0 ELSE hist.failed_run + 1,
     near_run   |-> IF body.cost_alt # NoCost /\ body.cost_alt < reasonablecost
                    THEN hist.near_run + 1 ELSE 0,
     frame      |-> body.frame,
     goodmatch  |-> body.goodmatch,
     changed    |-> body.new_slide_index # slide_index,
     slide      |-> body.new_slide_index,
     large      |-> large,
     slidepose  |-> body.slidepose,
     kf_pose    |-> IF make_keyframe THEN body.slidepose ELSE hist.kf_pose]

TrackTailMut(body) ==
    /\ preview' = IF timer THEN body.frame ELSE preview
    /\ \E large \in BOOLEAN :
          LET make_keyframe == body.goodmatch /\ large
          IN  /\ IF make_keyframe
                 THEN /\ slide_index' = body.new_slide_index
                      /\ ref' = RefOf(body.frame, body.slidepose)
                 ELSE UNCHANGED <<slide_index, ref>>
              /\ hist' = Tracked(body, large, make_keyframe)
              /\ UNCHANGED gen
    /\ prev_slidepose' = body.slidepose
    /\ Return

TrackTailAnyMut(body) ==
    /\ preview' = IF timer THEN body.frame ELSE preview
    /\ \E large \in BOOLEAN :
          LET make_keyframe == body.make_keyframe \/ large
          IN  /\ IF make_keyframe
                 THEN /\ slide_index' = body.new_slide_index
                      /\ ref' = RefOf(body.frame, body.slidepose)
                 ELSE UNCHANGED <<slide_index, ref>>
              /\ hist' = Tracked(body, large, make_keyframe)
              /\ UNCHANGED gen
    /\ prev_slidepose' = body.slidepose
    /\ Return

TrackTailSplitMut(body) ==
    /\ preview' = IF timer THEN body.frame ELSE preview
    /\ \E large \in BOOLEAN :
          LET make_keyframe == body.make_keyframe \/ (body.goodmatch /\ large)
          IN  /\ IF make_keyframe
                 THEN /\ slide_index' = slide_index
                      /\ ref' = RefOf(body.frame, body.slidepose)
                 ELSE UNCHANGED <<slide_index, ref>>
              /\ hist' = Tracked(body, large, make_keyframe)
              /\ UNCHANGED gen
    /\ prev_slidepose' = body.slidepose
    /\ Return

TrackTailPrevMut(body) ==
    /\ preview' = IF timer THEN body.frame ELSE preview
    /\ \E large \in BOOLEAN :
          LET make_keyframe == body.make_keyframe \/ (body.goodmatch /\ large)
          IN  /\ IF make_keyframe
                 THEN /\ slide_index' = body.new_slide_index
                      /\ ref' = RefOf(body.frame, body.slidepose)
                 ELSE UNCHANGED <<slide_index, ref>>
              /\ hist' = Tracked(body, large, make_keyframe)
              /\ UNCHANGED gen
    /\ prev_slidepose' = IF body.goodmatch THEN body.slidepose ELSE prev_slidepose
    /\ Return

TrackTailPreviewMut(body) ==
    /\ preview' = body.frame
    /\ \E large \in BOOLEAN :
          LET make_keyframe == body.make_keyframe \/ (body.goodmatch /\ large)
          IN  /\ IF make_keyframe
                 THEN /\ slide_index' = body.new_slide_index
                      /\ ref' = RefOf(body.frame, body.slidepose)
                 ELSE UNCHANGED <<slide_index, ref>>
              /\ hist' = Tracked(body, large, make_keyframe)
              /\ UNCHANGED gen
    /\ prev_slidepose' = body.slidepose
    /\ Return

\* the rest of track after the last Yield, for the body as it stands there:
\* the preview if the timer still runs, the keyframe decision (large: the
\* deviation or the deformation from the reference pose is large), the
\* keyframe, prev_slidepose, and the return
TrackTail(body) ==
    /\ preview' = IF timer THEN body.frame ELSE preview
    /\ \E large \in BOOLEAN :
          LET make_keyframe == body.make_keyframe \/ (body.goodmatch /\ large)
          IN  /\ IF make_keyframe
                 THEN /\ slide_index' = body.new_slide_index
                      /\ ref' = RefOf(body.frame, body.slidepose)
                 ELSE UNCHANGED <<slide_index, ref>>
              /\ hist' = Tracked(body, large, make_keyframe)
              /\ UNCHANGED gen
    /\ prev_slidepose' = body.slidepose
    /\ Return

\* the differential match is good: reset the counters and finish the tick
TrackLock ==
    /\ At("track", {"quad"})
    /\ ~Top.homography_empty
    /\ Top.quad_convex
    /\ ref.quad_convex
    /\ badcount' = 0
    /\ nearcount' = 0
    /\ TrackTail([Top EXCEPT !.new_slide_index = slide_index])
    /\ event' = "TrackLock"
    /\ UNCHANGED <<nslides, cache, cache_writes, reads, timer, window, appstate, posted,
                   handled, escaped, processor, frame_index, coarse_index, length,
                   sync_instructions, init_runs, call>>

TrackHardEarlyMut ==
    /\ At("track", {"quad"})
    /\ stack' = SetTop([Top EXCEPT
                           !.pc = "cand",
                           !.i = 1,
                           !.hardframe = TRUE,
                           !.quad_convex = TRUE,
                           !.new_slide_index = slide_index,
                           !.candidates = Candidates(slide_index, badcount, nslides),
                           !.bestslide = slide_index,
                           !.bestcost = Infinity,
                           !.bestslidepose = ZeroQuad,
                           !.best_found = FALSE])
    /\ badcount' = IF badcount < FullScanStep - 1 THEN badcount
                   ELSE USub(badcount, FullScanStep)
    /\ event' = "TrackHard"
    /\ UNCHANGED <<nslides, cache, cache_writes, reads, timer, window, appstate, posted,
                   handled, preview, escaped, processor, processing, frame_index,
                   coarse_index, length, slide_index, nearcount, ref, prev_slidepose,
                   sync_instructions, init_runs, call, hist, gen>>

\* the differential match is weak (no homography, or slidematch fails):
\* a hard frame; list the candidates, Yield.  The lists quadfilter built
\* for the differential pose are not read again, and the body forgets the
\* flag of the Quad they were filtered with.
TrackHard ==
    /\ At("track", {"quad"})
    /\ stack' = SetTop([Top EXCEPT
                           !.pc = "cand",
                           !.i = 1,
                           !.hardframe = TRUE,
                           !.quad_convex = TRUE,
                           !.new_slide_index = slide_index,
                           !.candidates = Candidates(slide_index, badcount, nslides),
                           !.bestslide = slide_index,
                           !.bestcost = Infinity,
                           !.bestslidepose = ZeroQuad,
                           !.best_found = FALSE])
    /\ badcount' = IF badcount < FullScanAfter THEN badcount
                   ELSE USub(badcount, FullScanStep)
    /\ event' = "TrackHard"
    /\ UNCHANGED <<nslides, cache, cache_writes, reads, timer, window, appstate, posted,
                   handled, preview, escaped, processor, processing, frame_index,
                   coarse_index, length, slide_index, nearcount, ref, prev_slidepose,
                   sync_instructions, init_runs, call, hist, gen>>

\* match(candidate slide, frame), Yield
TrackCandMatch ==
    /\ At("track", {"cand", "cost"})
    /\ Top.i <= Len(Top.candidates)
    /\ stack' = SetTop([Top EXCEPT !.pc = "cmatch"])
    /\ event' = "TrackCandMatch"
    /\ UNCHANGED <<nslides, cache, cache_writes, reads, timer, window, appstate, posted,
                   handled, preview, escaped, processor, processing, frame_index,
                   coarse_index, length, slide_index, nearcount, badcount, ref,
                   prev_slidepose, sync_instructions, init_runs, call, hist, gen>>

\* refineHomography for the candidate, Yield
TrackCandRefine ==
    /\ At("track", {"cmatch"})
    /\ \E empty \in BOOLEAN :
          stack' = SetTop([Top EXCEPT !.pc = "chom", !.homography_empty = empty])
    /\ event' = "TrackCandRefine"
    /\ UNCHANGED <<nslides, cache, cache_writes, reads, timer, window, appstate, posted,
                   handled, preview, escaped, processor, processing, frame_index,
                   coarse_index, length, slide_index, nearcount, badcount, ref,
                   prev_slidepose, sync_instructions, init_runs, call, hist, gen>>

\* the candidate's pose and cost (infinite without a homography: the pose
\* is the zero quad); keep the cheapest; Yield
TrackCandCost ==
    /\ At("track", {"chom"})
    /\ \E cost \in CostSamples :
          /\ Top.homography_empty => cost = Infinity
          /\ ~ref.quad_convex => cost = Infinity
          /\ LET candidate == Top.candidates[Top.i]
                 slidepose == quadperspective(SlideQuad(Top.frame, candidate),
                                              Top.homography_empty)
                 scored    == [Top EXCEPT !.pc = "cost", !.i = @ + 1,
                                          !.slidepose = slidepose]
             IN  stack' = SetTop(IF cost < Top.bestcost
                                 THEN [scored EXCEPT !.bestslide = candidate,
                                                     !.bestslidepose = slidepose,
                                                     !.bestcost = cost,
                                                     !.best_found = TRUE]
                                 ELSE scored)
    /\ event' = "TrackCandCost"
    /\ UNCHANGED <<nslides, cache, cache_writes, reads, timer, window, appstate, posted,
                   handled, preview, escaped, processor, processing, frame_index,
                   coarse_index, length, slide_index, nearcount, badcount, ref,
                   prev_slidepose, sync_instructions, init_runs, call, hist, gen>>

\* the timestamp track() hands to the stream
EmitStamp == frame_index

EmitMut(s, b, stream, stamp) ==
    LET r == StreamGoTo(stream, stamp, b, FALSE)
    IN  [s |-> r.s, call |-> Called("GoTo", stamp, b, FALSE, r.ret)]

\* the call track() makes for a change from slide s to slide b
Emit(s, b, stream, stamp) ==
    IF b = UAdd(s, 1)
    THEN LET r == StreamNext(stream, stamp, FALSE)
         IN  [s |-> r.s, call |-> Called("Next", stamp, 0, FALSE, r.ret)]
    ELSE IF b = USub(s, 1)
    THEN LET r == StreamPrevious(stream, stamp, FALSE)
         IN  [s |-> r.s, call |-> Called("Previous", stamp, 0, FALSE, r.ret)]
    ELSE LET r == StreamGoTo(stream, stamp, b, FALSE)
         IN  [s |-> r.s, call |-> Called("GoTo", stamp, b, FALSE, r.ret)]

TrackJudgeKeepMut ==
    /\ At("track", {"cand", "cost"})
    /\ Top.i > Len(Top.candidates)
    /\ \E alt \in CostSamples :
          /\ ~Top.best_found => alt = Infinity
          /\ LET salvaged  == Top.bestcost >= largecost /\ alt < reasonablecost
                 near      == IF salvaged THEN UAdd(nearcount, 1) ELSE nearcount
                 bestcost  == IF salvaged /\ near >= NearEnough THEN alt ELSE Top.bestcost
                 goodmatch == bestcost < largecost
                 changed   == goodmatch /\ Top.bestslide # slide_index
                 emitted   == Emit(slide_index, Top.bestslide, sync_instructions, EmitStamp)
             IN  /\ nearcount' = near
                 /\ badcount' = IF goodmatch THEN 0 ELSE UAdd(badcount, 1)
                 /\ sync_instructions' = IF changed THEN emitted.s ELSE sync_instructions
                 /\ call' = IF changed THEN emitted.call ELSE call
                 /\ stack' = SetTop([Top EXCEPT
                                        !.pc = "emit",
                                        !.cost_alt = IF Top.bestcost >= largecost
                                                     THEN alt ELSE NoCost,
                                        !.bestcost = bestcost,
                                        !.goodmatch = goodmatch,
                                        !.make_keyframe = changed,
                                        !.new_slide_index = Top.bestslide,
                                        !.slidepose = Top.bestslidepose])
    /\ event' = "TrackJudge"
    /\ UNCHANGED <<nslides, cache, cache_writes, reads, timer, window, appstate, posted,
                   handled, preview, escaped, processor, processing, frame_index,
                   coarse_index, length, slide_index, ref, prev_slidepose, init_runs, hist, gen>>

TrackJudgeAnyMut ==
    /\ At("track", {"cand", "cost"})
    /\ Top.i > Len(Top.candidates)
    /\ \E alt \in CostSamples :
          /\ ~Top.best_found => alt = Infinity
          /\ LET salvaged  == Top.bestcost >= largecost /\ alt < reasonablecost
                 near      == IF salvaged THEN UAdd(nearcount, 1) ELSE 0
                 bestcost  == IF salvaged /\ near >= NearEnough THEN alt ELSE Top.bestcost
                 goodmatch == bestcost < largecost
                 changed   == Top.bestslide # slide_index
                 emitted   == Emit(slide_index, Top.bestslide, sync_instructions, EmitStamp)
             IN  /\ nearcount' = near
                 /\ badcount' = IF goodmatch THEN 0 ELSE UAdd(badcount, 1)
                 /\ sync_instructions' = IF changed THEN emitted.s ELSE sync_instructions
                 /\ call' = IF changed THEN emitted.call ELSE call
                 /\ stack' = SetTop([Top EXCEPT
                                        !.pc = "emit",
                                        !.cost_alt = IF Top.bestcost >= largecost
                                                     THEN alt ELSE NoCost,
                                        !.bestcost = bestcost,
                                        !.goodmatch = goodmatch,
                                        !.make_keyframe = changed,
                                        !.new_slide_index = Top.bestslide,
                                        !.slidepose = Top.bestslidepose])
    /\ event' = "TrackJudge"
    /\ UNCHANGED <<nslides, cache, cache_writes, reads, timer, window, appstate, posted,
                   handled, preview, escaped, processor, processing, frame_index,
                   coarse_index, length, slide_index, ref, prev_slidepose, init_runs, hist, gen>>

\* after the last candidate: the salvage against prev_slidepose (alt: its
\* cost), the verdict on the frame, the instruction if the slide changed;
\* Yield
TrackJudge ==
    /\ At("track", {"cand", "cost"})
    /\ Top.i > Len(Top.candidates)
    /\ \E alt \in CostSamples :
          /\ ~Top.best_found => alt = Infinity
          /\ LET salvaged  == Top.bestcost >= largecost /\ alt < reasonablecost
                 near      == IF salvaged THEN UAdd(nearcount, 1) ELSE 0
                 bestcost  == IF salvaged /\ near >= NearEnough THEN alt ELSE Top.bestcost
                 goodmatch == bestcost < largecost
                 changed   == goodmatch /\ Top.bestslide # slide_index
                 emitted   == Emit(slide_index, Top.bestslide, sync_instructions, EmitStamp)
             IN  /\ nearcount' = near
                 /\ badcount' = IF goodmatch THEN 0 ELSE UAdd(badcount, 1)
                 /\ sync_instructions' = IF changed THEN emitted.s ELSE sync_instructions
                 /\ call' = IF changed THEN emitted.call ELSE call
                 /\ stack' = SetTop([Top EXCEPT
                                        !.pc = "emit",
                                        !.cost_alt = IF Top.bestcost >= largecost
                                                     THEN alt ELSE NoCost,
                                        !.bestcost = bestcost,
                                        !.goodmatch = goodmatch,
                                        !.make_keyframe = changed,
                                        !.new_slide_index = Top.bestslide,
                                        !.slidepose = Top.bestslidepose])
    /\ event' = "TrackJudge"
    /\ UNCHANGED <<nslides, cache, cache_writes, reads, timer, window, appstate, posted,
                   handled, preview, escaped, processor, processing, frame_index,
                   coarse_index, length, slide_index, ref, prev_slidepose, init_runs, hist, gen>>

\* the end of a hard frame
TrackFinish ==
    /\ At("track", {"emit"})
    /\ TrackTail(Top)
    /\ event' = "TrackFinish"
    /\ UNCHANGED <<nslides, cache, cache_writes, reads, timer, window, appstate, posted,
                   handled, escaped, processor, frame_index, coarse_index, length,
                   nearcount, badcount, sync_instructions, init_runs, call>>

(***************************************************************************)
(* The tracker under its driver                                            *)
(***************************************************************************)
Next ==
    \/ Notify
    \/ Destroy
    \/ OnSyncFinished
    \/ InitDetectSlide
    \/ InitCacheHit
    \/ InitCacheThrow
    \/ InitPeekFrame
    \/ InitPeekThrow
    \/ InitMatch
    \/ InitRefine
    \/ InitNoLock
    \/ InitLock
    \/ Idle
    \/ TrackEnd
    \/ TrackFrame
    \/ TrackMatch
    \/ TrackRefine
    \/ TrackLock
    \/ TrackHard
    \/ TrackCandMatch
    \/ TrackCandRefine
    \/ TrackCandCost
    \/ TrackJudge
    \/ TrackFinish

Spec == Init /\ [][Next]_vars

(***************************************************************************)
(* The instruction stream under a client that calls its API with any       *)
(* arguments: SyncInstructions(length, framerate), then Next, Previous,    *)
(* GoTo and End in any order                                               *)
(***************************************************************************)
InitStream ==
    /\ nslides = 1
    /\ length = 0
    /\ \E len \in 0..MaxSlides, fps \in FootageFps : sync_instructions = NewStream(len, fps)
    /\ cache = [exists |-> FALSE, text |-> NoText]
    /\ cache_writes = 0
    /\ reads = 0
    /\ timer = FALSE
    /\ window = FALSE
    /\ appstate = "Initializing"
    /\ posted = 0
    /\ handled = 0
    /\ preview = -1
    /\ escaped = FALSE
    /\ processor = "idle"
    /\ processing = FALSE
    /\ frame_index = 0
    /\ coarse_index = 0
    /\ slide_index = 0
    /\ nearcount = 0
    /\ badcount = 0
    /\ ref = NoRef
    /\ prev_slidepose = ZeroQuad
    /\ stack = <<>>
    /\ init_runs = 0
    /\ call = NoCall
    /\ hist = NoHist
    /\ gen = NoGen
    /\ event = "start"

\* the client makes calls as long as the stream holds at most MaxCalls
\* instructions
Room(s) == Len(s.instructions) <= MaxCalls

OnlyStream ==
    UNCHANGED <<nslides, cache, cache_writes, reads, timer, window, appstate, posted,
                handled, preview, escaped, processor, processing, frame_index,
                coarse_index, length, slide_index, nearcount, badcount, ref,
                prev_slidepose, stack, init_runs, hist, gen>>

CallNext ==
    /\ \E ts \in {0, MaxStamp}, relative \in BOOLEAN :
          LET r == StreamNext(sync_instructions, ts, relative)
          IN  /\ Room(r.s)
              /\ sync_instructions' = r.s
              /\ call' = IF r.ret THEN Called("Next", ts, 0, relative, TRUE)
                               ELSE Called("Next", 0, 0, FALSE, FALSE)
    /\ event' = "CallNext"
    /\ OnlyStream

CallPrevious ==
    /\ \E ts \in {0, MaxStamp}, relative \in BOOLEAN :
          LET r == StreamPrevious(sync_instructions, ts, relative)
          IN  /\ Room(r.s)
              /\ sync_instructions' = r.s
              /\ call' = IF r.ret THEN Called("Previous", ts, 0, relative, TRUE)
                               ELSE Called("Previous", 0, 0, FALSE, FALSE)
    /\ event' = "CallPrevious"
    /\ OnlyStream

CallGoTo ==
    /\ \E ts \in {0, MaxStamp}, relative \in BOOLEAN, index \in 0..(MaxSlides + 1) :
          LET r == StreamGoTo(sync_instructions, ts, index, relative)
          IN  /\ Room(r.s)
              /\ sync_instructions' = r.s
              /\ call' = IF r.ret THEN Called("GoTo", ts, index, relative, TRUE)
                               ELSE Called("GoTo", 0, index, FALSE, FALSE)
    /\ event' = "CallGoTo"
    /\ OnlyStream

CallEnd ==
    /\ \E ts \in {0, MaxStamp}, relative \in BOOLEAN :
          LET r == StreamEnd(sync_instructions, ts, relative)
          IN  /\ Room(r.s)
              /\ sync_instructions' = r.s
              /\ call' = Called("End", ts, 0, relative, r.ret)
    /\ event' = "CallEnd"
    /\ OnlyStream

NextStream == CallNext \/ CallPrevious \/ CallGoTo \/ CallEnd

StreamSpec == InitStream /\ [][NextStream]_vars

(***************************************************************************)
(* next_frame under a client that calls it over and over on footage of any *)
(* length, from frame_index = 0                                            *)
(***************************************************************************)
InitFrames ==
    /\ nslides = 1
    /\ length \in 0..MaxLength
    /\ sync_instructions = NewStream(1, 0)
    /\ cache = [exists |-> FALSE, text |-> NoText]
    /\ cache_writes = 0
    /\ reads = 0
    /\ timer = FALSE
    /\ window = FALSE
    /\ appstate = "Initializing"
    /\ posted = 0
    /\ handled = 0
    /\ preview = -1
    /\ escaped = FALSE
    /\ processor = "idle"
    /\ processing = FALSE
    /\ frame_index = 0
    /\ coarse_index = 0
    /\ slide_index = 0
    /\ nearcount = 0
    /\ badcount = 0
    /\ ref = NoRef
    /\ prev_slidepose = ZeroQuad
    /\ stack = <<>>
    /\ init_runs = 0
    /\ call = NoCall
    /\ hist = NoHist
    /\ gen = NoGen
    /\ event = "start"

\* one call of next_frame; the call record holds the decoded index asked
\* for, the ordinal of the call and whether the frame returned is non-empty
CallNextFrame ==
    /\ call.index < MaxFrameCalls
    /\ frame_index' = next_frame.frame_index
    /\ coarse_index' = next_frame.coarse_index
    /\ reads' = next_frame.reads
    /\ call' = Called("next_frame", frame_index, call.index + 1, FALSE, next_frame.frame # -1)
    /\ event' = "CallNextFrame"
    /\ UNCHANGED <<nslides, cache, cache_writes, timer, window, appstate, posted, handled,
                   preview, escaped, processor, processing, length, slide_index, nearcount,
                   badcount, ref, prev_slidepose, sync_instructions, stack, init_runs, hist, gen>>

FrameSpec == InitFrames /\ [][CallNextFrame]_vars

(***************************************************************************)
(* The tracker from the first tick of track on, on footage of              *)
(* MaxTrackFrames coarse frames and a deck of one slide: initialize has    *)
(* locked on frame 0 with no cache file, and the window stays open         *)
(***************************************************************************)
TrackLength == (frameskip + 1) * MaxTrackFrames

InitTrack ==
    /\ nslides = 1
    /\ length = TrackLength
    /\ sync_instructions = NewStream(nslides, 0)
    /\ cache = [exists |-> FALSE, text |-> NoText]
    /\ cache_writes = 0
    /\ reads = 1
    /\ timer = TRUE
    /\ window = TRUE
    /\ appstate = "Synchronizing"
    /\ posted = 0
    /\ handled = 0
    /\ preview = -1
    /\ escaped = FALSE
    /\ processor = "track"
    /\ processing = FALSE
    /\ frame_index = 0
    /\ coarse_index = 0
    /\ slide_index = 0
    /\ nearcount = 0
    /\ badcount = 0
    /\ \E convexclockwise \in BOOLEAN :
          ref = [RefOf(0, SlideQuad(0, 0)) EXCEPT !.quad_convex = convexclockwise]
    /\ prev_slidepose = SlideQuad(0, 0)
    /\ stack = <<>>
    /\ init_runs = 1
    /\ call = NoCall
    /\ hist = [NoHist EXCEPT !.slidepose = SlideQuad(0, 0), !.kf_pose = SlideQuad(0, 0)]
    /\ gen = NoGen
    /\ event = "InitLock"

NextTrack ==
    \/ Notify
    \/ OnSyncFinished
    \/ Idle
    \/ TrackEnd
    \/ TrackFrame
    \/ TrackMatch
    \/ TrackRefine
    \/ TrackLock
    \/ TrackHard
    \/ TrackCandMatch
    \/ TrackCandRefine
    \/ TrackCandCost
    \/ TrackJudge
    \/ TrackFinish

TrackSpec == InitTrack /\ [][NextTrack]_vars

(***************************************************************************)
(* The candidate list on its own: the first tracked frame of TrackSpec     *)
(* has reached the test of its differential match, in a deck of up to      *)
(* MaxDeck slides, on any slide of it and after any number of failed       *)
(* frames in a row that badcount can hold                                  *)
(***************************************************************************)
InitCand ==
    /\ nslides \in 1..MaxDeck
    /\ slide_index \in 0..(nslides - 1)
    /\ badcount \in 0..FullScanAfter
    /\ length = TrackLength
    /\ sync_instructions = NewStream(nslides, 0)
    /\ cache = [exists |-> FALSE, text |-> NoText]
    /\ cache_writes = 0
    /\ reads = 2
    /\ timer = TRUE
    /\ window = TRUE
    /\ appstate = "Synchronizing"
    /\ posted = 0
    /\ handled = 0
    /\ preview = -1
    /\ escaped = FALSE
    /\ processor = "track"
    /\ processing = TRUE
    /\ frame_index = frameskip + 1
    /\ coarse_index = 1
    /\ nearcount = 0
    /\ ref = RefOf(0, SlideQuad(0, 0))
    /\ prev_slidepose = SlideQuad(0, 0)
    /\ \E empty \in BOOLEAN :
          stack = <<[NewBody("track") EXCEPT
                        !.pc = "quad",
                        !.frame = 0,
                        !.homography_empty = empty,
                        !.slidepose = quadperspective(DiffQuad(0), empty)]>>
    /\ init_runs = 1
    /\ call = NoCall
    /\ hist = [NoHist EXCEPT !.slidepose = SlideQuad(0, 0), !.kf_pose = SlideQuad(0, 0),
                             !.failed_run = badcount, !.goodmatch = (badcount = 0)]
    /\ gen = NoGen
    /\ event = "TrackRefine"

CandSpec == InitCand /\ [][TrackHard]_vars

(***************************************************************************)
(* Quad and the cost model                                                 *)
(***************************************************************************)
\* Quad::Quad(x1, y1, ..., y4): the vertices, the edge normals, the flag and
\* the area as the constructor computes them
Quad(x1, y1, x2, y2, x3, y3, x4, y4) ==
    With([n \in {[nx1 |-> y2 - y1, ny1 |-> x1 - x2, nx2 |-> y3 - y2, ny2 |-> x2 - x3,
                  nx3 |-> y4 - y3, ny3 |-> x3 - x4, nx4 |-> y1 - y4, ny4 |-> x4 - x1]} |->
        [x1 |-> x1, y1 |-> y1, x2 |-> x2, y2 |-> y2,
         x3 |-> x3, y3 |-> y3, x4 |-> x4, y4 |-> y4,
         convexclockwise |-> /\ n.nx1 * n.ny2 - n.nx2 * n.ny1 <= 0
                             /\ n.nx2 * n.ny3 - n.nx3 * n.ny2 <= 0
                             /\ n.nx3 * n.ny4 - n.nx4 * n.ny3 <= 0
                             /\ n.nx4 * n.ny1 - n.nx1 * n.ny4 <= 0,
         area |-> (0 - (n.nx1 * n.ny2 - n.nx2 * n.ny1))
                  + (0 - (n.nx3 * n.ny4 - n.nx4 * n.ny3))]])

\* Quad::Quad(): every component zero, the flag true
DefaultQuad ==
    [x1 |-> 0, y1 |-> 0, x2 |-> 0, y2 |-> 0, x3 |-> 0, y3 |-> 0, x4 |-> 0, y4 |-> 0,
     convexclockwise |-> TRUE, area |-> 0]

ConvexClockwise(quad) == quad.convexclockwise

Area(quad) == quad.area

\* the rectangle of a slide of w x h pixels, as track() and initialize() build it
SlideRect(w, h) == Quad(0, 0, 0, h, w, h, w, 0)

\* twice the area the vertices enclose (the shoelace sum, unsigned)
TwiceEnclosed(quad) ==
    With([s \in {quad.x1 * quad.y2 - quad.x2 * quad.y1 + quad.x2 * quad.y3 - quad.x3 * quad.y2
                 + quad.x3 * quad.y4 - quad.x4 * quad.y3 + quad.x4 * quad.y1
                 - quad.x1 * quad.y4} |->
        IF s < 0 THEN 0 - s ELSE s])

\* matchcost, of the number of matches, the number of them whose
\* reprojection error is NaN, the two poses and the cost it returns when
\* nothing is rejected (mean error + deviation cost + deformation cost)
matchcostMut(matches, nans, slidepose1, slidepose2, residual) ==
    IF matches < min_matchsize THEN Infinity
    ELSE IF ~ConvexClockwise(slidepose1) \/ ~ConvexClockwise(slidepose2) THEN Infinity
    ELSE IF Area(slidepose1) < 10 * 10 \/ Area(slidepose2) < 10 * 10 THEN Infinity
    ELSE IF Area(slidepose1) > 5000 * 5000 \/ Area(slidepose2) > 5000 * 5000 THEN Infinity
    ELSE residual

matchcost(matches, nans, slidepose1, slidepose2, residual) ==
    IF matches < min_matchsize THEN Infinity
    ELSE IF ~ConvexClockwise(slidepose1) \/ ~ConvexClockwise(slidepose2) THEN Infinity
    ELSE IF Area(slidepose1) < 10 * 10 \/ Area(slidepose2) < 10 * 10 THEN Infinity
    ELSE IF Area(slidepose1) > 5000 * 5000 \/ Area(slidepose2) > 5000 * 5000 THEN Infinity
    ELSE IF matches - nans < min_matchsize THEN Infinity
    ELSE residual

\* the poses the cost model is given: the sunk one, slide rectangles of
\* 100, 60, 49, 307200, 12800000 and 25005000 square pixels, and a square
\* of 100 with its vertices in counterclockwise order
QuadSamples ==
    {DefaultQuad, SlideRect(10, 10), SlideRect(10, 6), SlideRect(7, 7), SlideRect(640, 480),
     SlideRect(3200, 4000), SlideRect(5000, 5001), Quad(0, 0, 10, 0, 10, 10, 0, 10)}

\* the record of a call of matchcost
Scored(matches, nans, homography_empty, slidepose1, slidepose2, residual, ret) ==
    [op |-> "matchcost", matches |-> matches, nans |-> nans,
     homography_empty |-> homography_empty, slidepose1 |-> slidepose1,
     slidepose2 |-> slidepose2, residual |-> residual, ret |-> ret]

InitCost ==
    /\ nslides = 1
    /\ length = 0
    /\ sync_instructions = NewStream(1, 0)
    /\ cache = [exists |-> FALSE, text |-> NoText]
    /\ cache_writes = 0
    /\ reads = 0
    /\ timer = FALSE
    /\ window = FALSE
    /\ appstate = "Initializing"
    /\ posted = 0
    /\ handled = 0
    /\ preview = -1
    /\ escaped = FALSE
    /\ processor = "idle"
    /\ processing = FALSE
    /\ frame_index = 0
    /\ coarse_index = 0
    /\ slide_index = 0
    /\ nearcount = 0
    /\ badcount = 0
    /\ ref = NoRef
    /\ prev_slidepose = ZeroQuad
    /\ stack = <<>>
    /\ init_runs = 0
    /\ call = NoCall
    /\ hist = NoHist
    /\ gen = NoGen
    /\ event = "start"

\* one call of matchcost as the candidate loop of track() makes it: the
\* second pose is the slide rectangle through quadperspective, which is
\* Quad() when the homography is empty
CallMatchcost ==
    /\ call.op = "none"
    /\ \E matches \in 0..MaxMatches, nans \in 0..MaxMatches, empty \in BOOLEAN,
          slidepose1 \in QuadSamples, quad \in QuadSamples, residual \in CostSamples :
          /\ nans <= matches
          /\ LET slidepose2 == IF quadperspective(SlideQuad(0, 0), empty) = ZeroQuad
                               THEN DefaultQuad ELSE quad
             IN  call' = Scored(matches, nans, empty, slidepose1, slidepose2, residual,
                                matchcost(matches, nans, slidepose1, slidepose2, residual))
    /\ event' = "CallMatchcost"
    /\ UNCHANGED <<nslides, cache, cache_writes, reads, timer, window, appstate, posted,
                   handled, preview, escaped, processor, processing, frame_index,
                   coarse_index, length, slide_index, nearcount, badcount, ref,
                   prev_slidepose, sync_instructions, stack, init_runs, hist, gen>>

CostSpec == InitCost /\ [][CallMatchcost]_vars

\* the record of a construction of a Quad
Built(quad) == [op |-> "Quad", quad |-> quad]

\* one construction of a Quad from vertices with coordinates 0..MaxCoord
CallQuad ==
    /\ call.op = "none"
    /\ \E x1, y1, x2, y2, x3, y3, x4, y4 \in 0..MaxCoord :
          call' = Built(Quad(x1, y1, x2, y2, x3, y3, x4, y4))
    /\ event' = "CallQuad"
    /\ UNCHANGED <<nslides, cache, cache_writes, reads, timer, window, appstate, posted,
                   handled, preview, escaped, processor, processing, frame_index,
                   coarse_index, length, slide_index, nearcount, badcount, ref,
                   prev_slidepose, sync_instructions, stack, init_runs, hist, gen>>

QuadSpec == InitCost /\ [][CallQuad]_vars

(***************************************************************************)
(* The stamp of a line on its own: written by ToString, read by the parser *)
(***************************************************************************)
\* framerates of one, two and three digits
FramerateSamples == {1, 5, 9, 10, 24, 25, 30, 60, 99, 100, 120}

\* the frames 0..MaxIndex, and the first and the last frame of a second
\* one hour, twelve hours and a hundred hours into the footage
IndexSamples(framerate) ==
    (0..MaxIndex) \cup
    {framerate * 3600 * h + i : h \in {1, 12, 100}, i \in {0, framerate - 1}}

\* the record of a stamp written and read back
Stamped(index, framerate, text, read) ==
    [op |-> "stamp", index |-> index, framerate |-> framerate, text |-> text,
     ok |-> read.ok, val |-> read.val, next |-> read.next]

\* the line ToString writes for an instruction at frame index, and the
\* stamp the parser reads after its "["
CallStamp ==
    /\ call.op = "none"
    /\ \E framerate \in FramerateSamples :
       \E index \in IndexSamples(framerate) :
          LET line == InstructionLine(SyncInstruction(index, "Next", 0, FALSE), framerate)
          IN  call' = Stamped(index, framerate, index2timestamp(index, framerate),
                              ReadStamp(line, 2, framerate))
    /\ event' = "CallStamp"
    /\ UNCHANGED <<nslides, cache, cache_writes, reads, timer, window, appstate, posted,
                   handled, preview, escaped, processor, processing, frame_index,
                   coarse_index, length, slide_index, nearcount, badcount, ref,
                   prev_slidepose, sync_instructions, stack, init_runs, hist, gen>>

StampSpec == InitCost /\ [][CallStamp]_vars

(***************************************************************************)
(* GenLoop: the stream rendered as a video of the slides                   *)
(***************************************************************************)
\* a stream holds at most MaxGenCalls instructions, stamped 0..MaxGenStamp
MaxGenCalls == 3
MaxGenStamp == 2

\* const unsigned int logtime = 8: the frames encoded between two Yields
logtime == 8

\* the stamps of the instructions: the small ones, and one that leaves more
\* than logtime frames to encode
GenStamps == (0..MaxGenStamp) \cup {logtime + 2}

\* the stamp of the last instruction of a stream, 0 for none
LastStamp(s) ==
    IF s.instructions = <<>> THEN 0 ELSE s.instructions[Len(s.instructions)].timestamp

\* the streams a successful absolute call stamped no earlier than the last
\* instruction leaves
Grown(s) ==
    LET stamps == {ts \in GenStamps : ts >= LastStamp(s)}
        rets == {StreamNext(s, ts, FALSE) : ts \in stamps}
                \cup {StreamPrevious(s, ts, FALSE) : ts \in stamps}
                \cup {StreamGoTo(s, ts, index, FALSE) : ts \in stamps, index \in 0..s.length}
                \cup {StreamEnd(s, ts, FALSE) : ts \in stamps}
    IN  {r.s : r \in {x \in rets : x.ret}}

\* the stream after its first k instructions, issued again on a new stream
RECURSIVE Replayed(_, _)
Replayed(s, k) ==
    IF k = 0 THEN NewStream(s.length, s.framerate)
    ELSE LET before == Replayed(s, k - 1)
             instruction == s.instructions[k]
         IN  CASE instruction.code = "Next" ->
                      StreamNext(before, instruction.timestamp, instruction.relative).s
               [] instruction.code = "Previous" ->
                      StreamPrevious(before, instruction.timestamp, instruction.relative).s
               [] instruction.code = "GoTo" ->
                      StreamGoTo(before, instruction.timestamp, instruction.data,
                                 instruction.relative).s
               [] OTHER ->
                      StreamEnd(before, instruction.timestamp, instruction.relative).s

\* the frame of a new encoder holds no image, and what a read past the end
\* of the slide array yields
Blank == 0 - 1
Garbage == 0 - 2

\* VideoEncoder(filename, width, height, framerate): the frame of the
\* encoder and the frames encoded so far, each named by the image it shows
NewEncoder == [frame |-> Blank, video |-> <<>>]

\* encoder << image: the image becomes the frame of the encoder
EncodeImage(encoder, image) == [encoder EXCEPT !.frame = image]

\* encoder << repeat: the frame of the encoder is encoded repeat times
EncodeRepeat(encoder, repeat) ==
    [encoder EXCEPT !.video = @ \o [i \in 1..repeat |-> encoder.frame]]

\* the encoder after a mutant of the loop of writeframe that encodes a
\* whole chunk when exactly logtime frames remain
RECURSIVE EncodeChunksMut(_, _)
EncodeChunksMut(encoder, remaining) ==
    IF remaining >= logtime
    THEN EncodeChunksMut(EncodeRepeat(encoder, logtime), remaining - logtime)
    ELSE EncodeRepeat(encoder, remaining)

\* the loop of writeframe: logtime frames at a time while more than
\* logtime remain, then the rest
RECURSIVE EncodeChunks(_, _)
EncodeChunks(encoder, remaining) ==
    IF remaining > logtime
    THEN EncodeChunks(EncodeRepeat(encoder, logtime), remaining - logtime)
    ELSE EncodeRepeat(encoder, remaining)

\* (*slides)[slide]: the image of the slide, of a read past the end of the
\* array whatever lies there
SlideImage(slide) == IF slide < nslides THEN slide ELSE Garbage

\* GenLoop::GenLoop: the first instruction, when stamped 0, chooses the
\* first image; the iterator stays on it
Constructed(s) ==
    LET first == s.instructions[1]
        slide == IF s.instructions # <<>> /\ first.timestamp = 0
                 THEN CASE first.code = "Next" -> 1
                        [] first.code = "GoTo" -> first.data
                        [] OTHER -> 0
                 ELSE 0
    IN  [built |-> TRUE, instructions_it |-> 1, timestamp |-> 0, slide |-> slide,
         encoder |-> IF s.instructions = <<>> THEN NewEncoder
                     ELSE EncodeImage(NewEncoder, SlideImage(slide)),
         processor |-> "writeframe", processing |-> FALSE,
         last |-> "construct", stamp |-> 0, asked |-> 0]

\* int delta of writeframe, from the unsigned difference
Delta(instruction, timestamp) ==
    LET d == IF instruction.relative THEN instruction.timestamp
             ELSE USub(instruction.timestamp, timestamp)
    IN  IF d >= UIntMod \div 2 THEN d - UIntMod ELSE d

\* the switch of writeframe
Switched(slide, instruction) ==
    CASE instruction.code = "Next" -> UAdd(slide, 1)
      [] instruction.code = "Previous" -> USub(slide, 1)
      [] instruction.code = "GoTo" -> instruction.data
      [] OTHER -> slide

InitGen ==
    /\ \E len \in 1..MaxSlides :
          /\ nslides = len
          /\ sync_instructions = NewStream(len, 24)
    /\ length = 0
    /\ cache = [exists |-> FALSE, text |-> NoText]
    /\ cache_writes = 0
    /\ reads = 0
    /\ timer = TRUE
    /\ window = FALSE
    /\ appstate = "Initializing"
    /\ posted = 0
    /\ handled = 0
    /\ preview = -1
    /\ escaped = FALSE
    /\ processor = "idle"
    /\ processing = FALSE
    /\ frame_index = 0
    /\ coarse_index = 0
    /\ slide_index = 0
    /\ nearcount = 0
    /\ badcount = 0
    /\ ref = NoRef
    /\ prev_slidepose = ZeroQuad
    /\ stack = <<>>
    /\ init_runs = 0
    /\ call = NoCall
    /\ hist = NoHist
    /\ gen = NoGen
    /\ event = "start"

OnlyGen ==
    UNCHANGED <<nslides, cache, cache_writes, reads, timer, window, appstate, handled,
                preview, processor, processing, frame_index, coarse_index, length,
                slide_index, nearcount, badcount, ref, prev_slidepose, stack, init_runs,
                call, hist>>

\* the client builds the stream before GenLoop is constructed: a successful
\* absolute call stamped no earlier than the last instruction, as long as
\* the stream holds fewer than MaxGenCalls instructions
GenCall ==
    /\ ~gen.built
    /\ Len(sync_instructions.instructions) < MaxGenCalls
    /\ sync_instructions' \in Grown(sync_instructions)
    /\ event' = "GenCall"
    /\ UNCHANGED <<gen, posted, escaped>>
    /\ OnlyGen

\* GenLoop::GenLoop
GenConstruct ==
    /\ ~gen.built
    /\ gen' = Constructed(sync_instructions)
    /\ event' = "GenConstruct"
    /\ UNCHANGED <<posted, escaped>>
    /\ UNCHANGED sync_instructions
    /\ OnlyGen

\* a tick of the timer
Ticking == gen.built /\ ~gen.processing /\ gen.processor = "writeframe"

\* Notify, the iterator at the end: writeframe posts LoopFinished and the
\* loop turns idle
GenFinish ==
    /\ Ticking
    /\ gen.instructions_it > Len(sync_instructions.instructions)
    /\ gen' = [gen EXCEPT !.processor = "idle", !.last = "finish"]
    /\ posted' = posted + 1
    /\ event' = "GenFinish"
    /\ UNCHANGED escaped
    /\ UNCHANGED sync_instructions
    /\ OnlyGen

\* Notify, the instruction no later than the one before: writeframe steps
\* over it
GenSkip ==
    /\ Ticking
    /\ gen.instructions_it <= Len(sync_instructions.instructions)
    /\ Delta(sync_instructions.instructions[gen.instructions_it], gen.timestamp) = 0
    /\ gen' = [gen EXCEPT !.instructions_it = @ + 1, !.last = "skip"]
    /\ event' = "GenSkip"
    /\ UNCHANGED <<posted, escaped>>
    /\ UNCHANGED sync_instructions
    /\ OnlyGen

\* Notify, the instruction later than the one before: writeframe encodes
\* the frame of the encoder delta - 1 times, switches the slide and hands
\* its image to the encoder
GenSwitch ==
    /\ Ticking
    /\ gen.instructions_it <= Len(sync_instructions.instructions)
    /\ LET instruction == sync_instructions.instructions[gen.instructions_it]
           delta == Delta(instruction, gen.timestamp)
           remaining == (delta - 1) % UIntMod
           encoded == EncodeChunks(gen.encoder, remaining)
           slide == Switched(gen.slide, instruction)
       IN  /\ delta # 0
           /\ slide < nslides
           /\ gen' = [gen EXCEPT !.slide = slide,
                                 !.encoder = EncodeImage(encoded, SlideImage(slide)),
                                 !.timestamp = instruction.timestamp,
                                 !.instructions_it = @ + 1,
                                 !.last = "switch",
                                 !.stamp = instruction.timestamp,
                                 !.asked = Len(encoded.video)]
    /\ event' = "GenSwitch"
    /\ UNCHANGED <<posted, escaped>>
    /\ UNCHANGED sync_instructions
    /\ OnlyGen

\* Notify, the switch leaves slide past the end of the slide array: the
\* read of (*slides)[slide] is undefined. Either the encoder refuses what
\* it is handed, the exception leaves Notify and the latch stays set, or it
\* takes it as an image and writeframe goes on
GenStray ==
    /\ Ticking
    /\ gen.instructions_it <= Len(sync_instructions.instructions)
    /\ LET instruction == sync_instructions.instructions[gen.instructions_it]
           delta == Delta(instruction, gen.timestamp)
           remaining == (delta - 1) % UIntMod
           encoded == EncodeChunks(gen.encoder, remaining)
           slide == Switched(gen.slide, instruction)
       IN  /\ delta # 0
           /\ slide >= nslides
           /\ \E refused \in BOOLEAN :
                 IF refused
                 THEN /\ gen' = [gen EXCEPT !.slide = slide,
                                            !.encoder = encoded,
                                            !.processing = TRUE,
                                            !.last = "stray",
                                            !.stamp = instruction.timestamp,
                                            !.asked = Len(encoded.video)]
                      /\ escaped' = TRUE
                 ELSE /\ gen' = [gen EXCEPT !.slide = slide,
                                            !.encoder = EncodeImage(encoded, SlideImage(slide)),
                                            !.timestamp = instruction.timestamp,
                                            !.instructions_it = @ + 1,
                                            !.last = "stray",
                                            !.stamp = instruction.timestamp,
                                            !.asked = Len(encoded.video)]
                      /\ UNCHANGED escaped
    /\ event' = "GenStray"
    /\ UNCHANGED posted
    /\ UNCHANGED sync_instructions
    /\ OnlyGen

\* Notify with the latch set, or with the loop idle: nothing happens
GenIdle ==
    /\ gen.built
    /\ gen.processing \/ gen.processor = "idle"
    /\ event' = "GenIdle"
    /\ UNCHANGED <<gen, posted, escaped>>
    /\ UNCHANGED sync_instructions
    /\ OnlyGen

GenNext ==
    \/ GenCall
    \/ GenConstruct
    \/ GenFinish
    \/ GenSkip
    \/ GenSwitch
    \/ GenStray
    \/ GenIdle

GenSpec == InitGen /\ [][GenNext]_vars

(***************************************************************************)
(* Properties                                                              *)
(***************************************************************************)
\* the bodies of track in flight that hold a frame
FrameBodies == {k \in 1..Len(stack) : stack[k].proc = "track" /\ stack[k].frame # -1}

\* C1: a tick that arrives while the latch is set returns at once: it
\* changes nothing of the tracker, the footage, the cache file or the tick
\* in flight, and leaves nothing behind to run later; so at most one tick
\* body is in flight, it holds the latch, and while the body of a frame is
\* in flight no later frame has been read.
C1_ReentrantTickDropped ==
    /\ [](/\ Len(stack) <= 1
          /\ (stack # <<>> => processing)
          /\ \A k \in FrameBodies : UAdd(stack[k].frame, frameskip + 1) = frame_index)
    /\ [][(event' = "Notify" /\ processing)
            => UNCHANGED <<processor, processing, frame_index, coarse_index, slide_index,
                           nearcount, badcount, ref, prev_slidepose, sync_instructions,
                           stack, reads, cache, cache_writes, posted, preview, init_runs,
                           call, hist, gen>>]_vars

\* a tick was dropped inside a Yield of track
C1_Witness ==
    /\ Len(stack) = 1
    /\ stack[1].proc = "track"
    /\ stack[1].pc \in {"cmatch", "chom", "cost"}
    /\ event = "Notify"

\* C2: the processor only moves initialize -> track, initialize -> idle or
\* track -> idle, and the body of initialize is entered at most once.
C2_ProcessorOrder ==
    /\ [](init_runs <= 1)
    /\ [][processor' # processor
            => <<processor, processor'>> \in {<<"initialize", "track">>,
                                              <<"initialize", "idle">>,
                                              <<"track", "idle">>}]_vars

\* initialize ran once, with a tick dropped in one of its yields, and the
\* tracker went on through track to idle
C2_Witness ==
    /\ processor = "idle"
    /\ init_runs = 1
    /\ coarse_index > 0
    /\ cache_writes = 1

\* C3: once the processor is idle no step changes it, the frame indices,
\* slide_index, the counters, the reference state, the instruction stream
\* or the cache file, or posts LoopFinished; LoopFinished is posted at most
\* once.
C3_IdleAbsorbing ==
    /\ [](posted <= 1)
    /\ [][processor = "idle"
            => UNCHANGED <<processor, frame_index, coarse_index, slide_index, badcount,
                           nearcount, ref, prev_slidepose, sync_instructions, cache,
                           cache_writes, posted, reads>>]_vars

\* a tick ran to its end in idle after the end of the video
C3_Witness ==
    /\ processor = "idle"
    /\ event = "Idle"
    /\ stack = <<>>
    /\ cache_writes = 1

\* C4 (as claimed): while the timer runs and the tracker is not idle, a tick
\* is in flight or the next tick can start, so that the ticks that keep
\* arriving take the tracker to idle; and once the tracker is idle after the
\* end of the video, the cache file holds the serialized stream, written
\* once, and LoopFinished was posted once.
C4_TicksReachIdle ==
    /\ processor = "idle" \/ ~timer \/ stack # <<>> \/ ~processing
    /\ (processor = "idle" /\ cache_writes > 0)
          => /\ cache = [exists |-> TRUE, text |-> ToString(sync_instructions)]
             /\ cache_writes = 1
             /\ posted = 1

\* C5: between ticks, while the processor is track, slide_index is the
\* stream's current_index.
C5_SlideIndexIsCurrentIndex ==
    (processor = "track" /\ stack = <<>>)
        => slide_index = sync_instructions.current_index

\* between ticks, still tracking, after two emitted changes
C5_Witness ==
    /\ processor = "track"
    /\ stack = <<>>
    /\ Len(sync_instructions.instructions) = 2
    /\ slide_index # 0

\* the stream is the tracker's own, not one adopted from the cache file
BuiltByTracker == ~(posted > 0 /\ cache_writes = 0)

C7_StampIsFrameIndex ==
    \A k \in 1..Len(stack) :
        (stack[k].proc = "track" /\ stack[k].pc = "emit" /\ stack[k].make_keyframe)
            => call.timestamp = stack[k].frame

\* C8 (as claimed): the script written at the end of the video holds
\* exactly one "end" line, and it is the last line.
C8_ScriptEndsWithEnd ==
    cache_writes > 0
        => LET text    == cache.text
               endline == <<"]", ":", " ">> \o EndWord \o <<"\n">>
               ends    == {p \in 1..Len(text) :
                              /\ p + Len(endline) - 1 <= Len(text)
                              /\ SubSeq(text, p, p + Len(endline) - 1) = endline}
           IN  /\ Cardinality(ends) = 1
               /\ Len(text) - Len(endline) + 1 \in ends

\* C9: on a stream of length >= 1, Next returns false and changes nothing
\* exactly when current_index >= length - 1; otherwise it returns true,
\* appends one Next instruction with the timestamp and the relative flag it
\* was given, and adds 1 to current_index.
C9_NextContract ==
    [][(event' = "CallNext" /\ sync_instructions.length >= 1)
         => IF sync_instructions.current_index >= sync_instructions.length - 1
            THEN /\ ~call'.ret
                 /\ sync_instructions' = sync_instructions
            ELSE /\ call'.ret
                 /\ sync_instructions' =
                       [sync_instructions EXCEPT
                           !.instructions =
                               Append(@, [timestamp |-> call'.timestamp, code |-> "Next",
                                          data |-> 0, relative |-> call'.relative]),
                           !.current_index = @ + 1]]_vars

\* Next failed on the last slide of a stream that holds instructions
C9_Witness ==
    /\ event = "CallNext"
    /\ ~call.ret
    /\ sync_instructions.length >= 2
    /\ sync_instructions.current_index = sync_instructions.length - 1

\* C10: Previous returns false and changes nothing exactly when
\* current_index is 0; otherwise it returns true, appends one Previous
\* instruction and takes 1 from current_index, which stays >= 0.
C10_PreviousContract ==
    [][event' = "CallPrevious"
         => IF sync_instructions.current_index < 1
            THEN /\ ~call'.ret
                 /\ sync_instructions' = sync_instructions
            ELSE /\ call'.ret
                 /\ sync_instructions'.current_index >= 0
                 /\ sync_instructions' =
                       [sync_instructions EXCEPT
                           !.instructions =
                               Append(@, [timestamp |-> call'.timestamp, code |-> "Previous",
                                          data |-> 0, relative |-> call'.relative]),
                           !.current_index = @ - 1]]_vars

\* Previous failed on slide 0 after the stream had moved
C10_Witness ==
    /\ event = "CallPrevious"
    /\ ~call.ret
    /\ Len(sync_instructions.instructions) >= 1
    /\ sync_instructions.current_index = 0

\* C11: GoTo returns false and changes nothing exactly when the index it is
\* given is >= length; otherwise it returns true, appends one GoTo
\* instruction whose data is that index, with the timestamp and flag given,
\* and sets current_index to the index.
C11_GoToContract ==
    [][event' = "CallGoTo"
         => IF call'.index >= sync_instructions.length
            THEN /\ ~call'.ret
                 /\ sync_instructions' = sync_instructions
            ELSE /\ call'.ret
                 /\ sync_instructions' =
                       [sync_instructions EXCEPT
                           !.instructions =
                               Append(@, [timestamp |-> call'.timestamp, code |-> "GoTo",
                                          data |-> call'.index,
                                          relative |-> call'.relative]),
                           !.current_index = call'.index]]_vars

\* GoTo failed on the first index past the slides, on a stream that had moved
C11_Witness ==
    /\ event = "CallGoTo"
    /\ ~call.ret
    /\ call.index = sync_instructions.length
    /\ sync_instructions.current_index > 0

\* C12: on a stream constructed with length >= 1, after any calls of Next,
\* Previous, GoTo and End, successful or not, 0 <= current_index < length.
C12_CurrentIndexInRange ==
    sync_instructions.length >= 1
        => /\ 0 <= sync_instructions.current_index
           /\ sync_instructions.current_index < sync_instructions.length

\* the stream stands on its last slide, reached by GoTo, after an End
C12_Witness ==
    /\ event = "CallEnd"
    /\ sync_instructions.length >= 2
    /\ sync_instructions.current_index = sync_instructions.length - 1
    /\ Len(sync_instructions.instructions) = 2
    /\ sync_instructions.instructions[1].code = "GoTo"

\* C13 (as claimed): on a stream constructed with length 0, every call of
\* Next, Previous and GoTo returns false and appends nothing, so the stream
\* holds End instructions only.
C13_EmptyDeckRejectsMoves ==
    sync_instructions.length = 0
        => /\ call.op \in {"Next", "Previous", "GoTo"} => ~call.ret
           /\ \A i \in 1..Len(sync_instructions.instructions) :
                 sync_instructions.instructions[i].code = "End"
           /\ sync_instructions.current_index = 0

\* the slide a replay of the instructions from slide 0 ends on, as the video
\* generator replays them: Next adds 1, Previous takes 1, GoTo sets the
\* slide to its data, End changes nothing
RECURSIVE ReplaySlide(_)
ReplaySlide(instructions) ==
    IF instructions = <<>> THEN 0
    ELSE LET slide       == ReplaySlide(SubSeq(instructions, 1, Len(instructions) - 1))
             instruction == instructions[Len(instructions)]
         IN  CASE instruction.code = "Next"     -> UAdd(slide, 1)
               [] instruction.code = "Previous" -> USub(slide, 1)
               [] instruction.code = "GoTo"     -> instruction.data
               [] OTHER                         -> slide

\* C14: after any calls of Next, Previous, GoTo and End on a fresh stream,
\* failed ones included, current_index is the slide a replay of the appended
\* instructions from slide 0 ends on.
C14_ReplayGivesCurrentIndex ==
    sync_instructions.current_index = ReplaySlide(sync_instructions.instructions)

\* a GoTo and a Previous were appended, then a GoTo failed
C14_Witness ==
    /\ event = "CallGoTo"
    /\ ~call.ret
    /\ Len(sync_instructions.instructions) = 2
    /\ sync_instructions.instructions[1].code = "GoTo"
    /\ sync_instructions.instructions[2].code = "Previous"
    /\ sync_instructions.current_index > 0

\* C15 (as claimed): for every stream built through the API, the parser
\* reads the text ToString writes, and the stream it builds has the same
\* length, the same framerate and the same instructions in the same order.
C15_RoundTrip ==
    LET r == Parse(ToString(sync_instructions))
    IN  /\ r.status = "ok"
        /\ r.s.length = sync_instructions.length
        /\ r.s.framerate = sync_instructions.framerate
        /\ r.s.instructions = sync_instructions.instructions

\* C16 (as claimed): the line ToString writes for an instruction holds a
\* "+" right after the opening bracket if and only if the instruction's
\* relative flag is true.
C16_PlusIffRelative ==
    \A i \in 1..Len(sync_instructions.instructions) :
        LET instruction == sync_instructions.instructions[i]
            line        == InstructionLine(instruction, sync_instructions.framerate)
        IN  (line[1] = "[" /\ line[2] = "+") <=> instruction.relative

\* ceil(length / (frameskip + 1))
CoarseLength == (length + frameskip) \div (frameskip + 1)

\* C17: from frame_index = 0, the first ceil(length / (frameskip + 1)) calls
\* of next_frame return a frame, each adding 1 to coarse_index and
\* frameskip + 1 to frame_index, and every later call returns an empty
\* frame and changes neither index.
C17_NextFrameCount ==
    LET calls  == call.index
        frames == IF calls < CoarseLength THEN calls ELSE CoarseLength
    IN  /\ coarse_index = frames
        /\ frame_index = frames * (frameskip + 1)
        /\ reads = frames
        /\ calls > 0 => (call.ret <=> calls <= CoarseLength)

\* two frames were returned, then several empty ones
C17_Witness ==
    /\ event = "CallNextFrame"
    /\ CoarseLength = 2
    /\ call.index >= CoarseLength + 3
    /\ ~call.ret

\* the cache file is there and the parser reads it
CacheReadable == cache.exists /\ Parse(cache.text).status = "ok"

\* C18: when the cache file exists and parses, the tick of initialize adopts
\* the parsed stream, posts LoopFinished once and leaves the processor idle;
\* and at no point of the run is a footage frame read, a match or a
\* homography computed, an instruction appended or the cache file written.
C18_CacheHit ==
    CacheReadable
        => /\ reads = 0
           /\ frame_index = 0
           /\ coarse_index = 0
           /\ ref = NoRef
           /\ call = NoCall
           /\ cache_writes = 0
           /\ \A k \in 1..Len(stack) : stack[k].pc \in {"entry", "slide"}
           /\ (init_runs = 1 /\ stack = <<>>) => processor = "idle"
           /\ IF processor = "idle"
              THEN /\ posted = 1
                   /\ sync_instructions = Parse(cache.text).s
              ELSE /\ processor = "initialize"
                   /\ posted = 0

\* the script of the cache was adopted, and a later tick ran in idle
C18_Witness ==
    /\ CacheReadable
    /\ processor = "idle"
    /\ event = "Idle"
    /\ posted = 1
    /\ Len(sync_instructions.instructions) = 1
    /\ sync_instructions.instructions[1].code = "Next"

\* the cache file is there, as the tracker found it, and the parser does not
\* read it to the end
CacheMalformed == cache.exists /\ cache_writes = 0 /\ Parse(cache.text).status # "ok"

\* C19 (as claimed): when the cache file exists and does not parse, whatever
\* is malformed in it, no LoopFinished is posted for it, the stream of
\* initialize stays the empty stream of the constructor, and initialize goes
\* on to the first frame of the footage as it does without a cache file.
C19_MalformedCacheIgnored ==
    CacheMalformed
        => /\ posted = 0
           /\ processor = "initialize"
                 => sync_instructions = NewStream(nslides, sync_instructions.framerate)
           /\ (init_runs = 1 /\ (stack = <<>> \/ stack[1].pc \notin {"entry", "slide"}))
                 => reads >= 1

\* C20 (as claimed): no exception leaves Notify, whatever the footage, the
\* cache file and the slides are.
C20_NoFailureEscapes == ~escaped

\* C21: when initialize finds no homography between slide 0 and frame 0, the
\* tracker goes idle in that step with no reference state installed, no
\* instruction appended, the cache file not written and no LoopFinished
\* posted.
C21_NoLockLeavesNothing ==
    [][event' = "InitNoLock"
       => /\ processor' = "idle"
          /\ ref' = NoRef
          /\ prev_slidepose' = ZeroQuad
          /\ sync_instructions' = sync_instructions
          /\ sync_instructions'.instructions = <<>>
          /\ cache' = cache
          /\ cache_writes' = 0
          /\ posted' = 0]_vars

\* initialize has gone idle for want of a homography
C21_Witness ==
    /\ event = "InitNoLock"
    /\ processor = "idle"
    /\ stack = <<>>
    /\ ~processing

\* initialize went idle for want of a homography: the tracker is idle with
\* no reference state and nothing posted
NoLockIdle == processor = "idle" /\ ref = NoRef /\ posted = 0

\* C22: an insufficient initial lock stops the pipeline: once initialize
\* has failed to lock, the driver stops ticking, so no tick has run against
\* the idle tracker with the timer still running afterwards.
C22_NoLockStopsDriver == (NoLockIdle /\ event = "Idle") => ~timer

\* C23: a hard frame whose best cost, after the salvage, is still at least
\* largecost is a failed match: badcount is one more than it was after the
\* full-scan decrement of the frame, and neither slide_index nor the stream
\* nor the reference state changes in the rest of the tick, whatever slide
\* was the best candidate.
C23_FailedFrame ==
    [][/\ event' \in {"TrackCandMatch", "TrackCandRefine", "TrackCandCost"}
          => badcount' = badcount
       /\ (event' = "TrackJudge" /\ stack'[Len(stack')].bestcost >= largecost)
          => /\ ~stack'[Len(stack')].goodmatch
             /\ badcount' = UAdd(badcount, 1)
             /\ slide_index' = slide_index
             /\ sync_instructions' = sync_instructions
             /\ ref' = ref
       /\ (event' = "TrackFinish" /\ Top.bestcost >= largecost)
          => /\ badcount' = badcount
             /\ slide_index' = slide_index
             /\ sync_instructions' = sync_instructions
             /\ ref' = ref]_vars

\* a frame failed although its best candidate, at a finite cost, was another
\* slide than the current one
C23_Witness ==
    /\ event = "TrackFinish"
    /\ ~hist.goodmatch
    /\ hist.changed
    /\ hist.slidepose # ZeroQuad
    /\ badcount = 1

\* C24: an accepted hard frame whose best slide b differs from the current
\* slide s appends exactly one instruction, Next when b = s + 1, Previous
\* when b = s - 1 and GoTo(b) otherwise; the call on the stream returns
\* true; and the tick ends with slide_index = b.  No other hard frame
\* appends anything.
C24_SlideChangeEmitsOne ==
    [][/\ event' = "TrackJudge"
          => LET body    == stack'[Len(stack')]
                 b       == body.new_slide_index
                 s       == slide_index
                 before  == sync_instructions.instructions
                 after   == sync_instructions'.instructions
             IN  IF body.goodmatch /\ b # s
                 THEN /\ Len(after) = Len(before) + 1
                      /\ SubSeq(after, 1, Len(before)) = before
                      /\ after[Len(after)].code =
                            (IF b = s + 1 THEN "Next"
                             ELSE IF b = s - 1 THEN "Previous" ELSE "GoTo")
                      /\ after[Len(after)].code = "GoTo" => after[Len(after)].data = b
                      /\ call'.ret
                      /\ sync_instructions'.current_index = b
                 ELSE sync_instructions' = sync_instructions
       /\ (event' = "TrackFinish" /\ Top.goodmatch /\ Top.new_slide_index # slide_index)
          => /\ slide_index' = Top.new_slide_index
             /\ sync_instructions' = sync_instructions]_vars

\* a tick that moved two slides ahead with a GoTo has ended
C24_Witness ==
    /\ event = "TrackFinish"
    /\ hist.goodmatch
    /\ hist.changed
    /\ call.op = "GoTo"
    /\ call.ret
    /\ slide_index = call.index
    /\ slide_index = 2

\* every slide of a deck of n, in order
AllSlides(n) == [k \in 1..n |-> k - 1]

\* the slides within three of s that a deck of n holds, nearest first, the
\* one ahead before the one behind
NearSlides(s, n) ==
    SelectSeq(<<s, s + 1, s - 1, s + 2, s - 2, s + 3, s - 3>>,
              LAMBDA c : c \in 0..(n - 1))

\* badcount after n frames failed in a row, the run starting at badcount = 0
BadAfter(n) == IF n <= 7 THEN n ELSE 4 + ((n - 8) % 4)

\* C25: a hard frame takes every slide as a candidate exactly when it
\* begins with badcount >= 7, and then badcount is reduced by 4 before the
\* candidates are scored; so in a run of failed frames that starts at
\* badcount = 0 the first full scan is the frame after 7 failed ones and
\* each later one comes 4 failed frames after the one before.  The
\* candidate lists are compared for the deck of the run and, at the
\* badcount of the frame, for every deck of up to MaxDeck slides.
C25_FullScanSchedule ==
    [][/\ event' = "TrackHard"
          => LET full == badcount >= 7
             IN  /\ full <=> (hist.failed_run >= 7 /\ (hist.failed_run - 7) % 4 = 0)
                 /\ badcount' = IF full THEN badcount - 4 ELSE badcount
                 /\ stack'[Len(stack')].candidates =
                       IF full THEN AllSlides(nslides) ELSE NearSlides(slide_index, nslides)
                 /\ \A n \in 1..MaxDeck : \A s \in 0..(n - 1) :
                       Candidates(s, badcount, n) =
                          IF full THEN AllSlides(n) ELSE NearSlides(s, n)
       /\ (stack' = <<>> /\ processor' = "track")
          => badcount' = BadAfter(hist'.failed_run)]_vars

\* the second full scan of a run of failed frames: the frame after the
\* eleventh failure has reduced badcount from 7 to 3
C25_Witness ==
    /\ event = "TrackHard"
    /\ hist.failed_run = 11
    /\ badcount = 3

\* C26: in a hard frame the cost against prev_slidepose is computed only
\* when the best cost is at least 1000; nearcount goes up by one iff that
\* cost is below 40 and is reset to 0 in every other outcome (a good
\* differential lock, a best cost below 1000, a salvage cost of 40 or more);
\* the salvage cost replaces the best cost only if nearcount is then at
\* least 3, so only when the two frames before were hard frames with a
\* salvage cost below 40 as well.
C26_Salvage ==
    [][/\ event' = "TrackJudge"
          => LET body     == stack'[Len(stack')]
                 best     == Top.bestcost
                 computed == body.cost_alt # NoCost
                 near     == computed /\ body.cost_alt < 40
             IN  /\ computed <=> best >= 1000
                 /\ nearcount' = IF near THEN nearcount + 1 ELSE 0
                 /\ body.bestcost = IF near /\ nearcount' >= 3 THEN body.cost_alt ELSE best
                 /\ body.bestcost # best => hist.near_run >= 2
       /\ event' = "TrackLock" => nearcount' = 0
       /\ (stack' = <<>> /\ processor' = "track") => nearcount' = hist'.near_run]_vars

\* a frame is accepted by the salvage: its best cost was too large, and it
\* is the third in a row with a salvage cost below reasonablecost
C26_Witness ==
    /\ event = "TrackJudge"
    /\ Top.cost_alt = 10
    /\ Top.bestcost = 10
    /\ Top.goodmatch
    /\ nearcount = 3
    /\ hist.near_run = 2

\* C27: a tick of track replaces the reference state if and only if the
\* frame is a good match and the slide it accepted differs from slide_index
\* or its pose deviates or is deformed much from ref_slidepose; the
\* replacement installs the frame, its keypoints and descriptors, its pose,
\* the sublists inside the pose and slide_index in one step, and no other
\* step of the tick touches any of them.
C27_KeyframePolicy ==
    [][/\ event' \in {"TrackLock", "TrackFinish"}
          => IF hist'.goodmatch /\ (hist'.changed \/ hist'.large)
             THEN /\ ref' = RefOf(hist'.frame, hist'.slidepose)
                  /\ slide_index' = hist'.slide
             ELSE ref' = ref /\ slide_index' = slide_index
       /\ event' \in {"TrackFrame", "TrackMatch", "TrackRefine", "TrackHard",
                      "TrackCandMatch", "TrackCandRefine", "TrackCandCost",
                      "TrackJudge", "TrackEnd"}
          => ref' = ref /\ slide_index' = slide_index]_vars

\* the second frame became the keyframe for its large deviation alone, the
\* slide being the same
C27_Witness ==
    /\ event \in {"TrackLock", "TrackFinish"}
    /\ hist.goodmatch
    /\ hist.large
    /\ ~hist.changed
    /\ hist.frame = frameskip + 1
    /\ ref = RefOf(hist.frame, hist.slidepose)

\* C28: while the processor is track, and so at every boundary between two
\* of its ticks, ref_slidepose is the pose of the frame that last became the
\* keyframe (the pose initialize locked on if none did), and prev_slidepose
\* is the pose the last tracked frame ended with (the pose of initialize
\* before the first), be that frame accepted or failed.
C28_PoseMemory ==
    processor = "track"
        => /\ ref.slidepose = hist.kf_pose
           /\ prev_slidepose = hist.slidepose

\* a failed frame has just been tracked after a keyframe was taken: the two
\* poses differ and prev_slidepose is the one of the failed frame
C28_Witness ==
    /\ processor = "track"
    /\ event = "TrackFinish"
    /\ stack = <<>>
    /\ ~hist.goodmatch
    /\ ref.frame > 0
    /\ prev_slidepose = hist.slidepose
    /\ prev_slidepose # ref.slidepose

\* C29: a hard frame that begins with badcount < 7 on slide s lists as its
\* candidates the members of s, s+1, s-1, s+2, s-2, s+3, s-3 that are slides
\* of the deck, each once and in that order: s is always the first, nothing
\* outside the deck is listed, and where s < k the value s-k, which wraps
\* in unsigned arithmetic, is not listed.
C29_NearCandidates ==
    [][(event' = "TrackHard" /\ badcount < 7)
          => LET c == stack'[Len(stack')].candidates
             IN  /\ c = NearSlides(slide_index, nslides)
                 /\ c = Candidates(slide_index, badcount, nslides)
                 /\ Len(c) >= 1
                 /\ c[1] = slide_index
                 /\ \A k \in 1..Len(c) : c[k] \in 0..(nslides - 1)
                 /\ \A j, k \in 1..Len(c) : c[j] = c[k] => j = k
                 /\ \A k \in 1..3 : \A j \in 1..Len(c) :
                       slide_index < k => c[j] # USub(slide_index, k)]_vars

\* on the third of five slides s+3 is past the deck and s-3 wraps
C29_Witness ==
    /\ event = "TrackHard"
    /\ badcount < 7
    /\ nslides = 5
    /\ slide_index = 2
    /\ Top.candidates = <<2, 3, 1, 4, 0>>

\* C30: matchcost returns +infinity whenever fewer than 5 matches are given,
\* or fewer than 5 remain once those with a NaN error are discarded, or one
\* of the two poses is not convex and clockwise, or one of them encloses
\* less than 100 or more than 25,000,000 square pixels, whatever the other
\* inputs are; and so whenever the homography of the candidate is empty.
C30_HardRejections ==
    call.op = "matchcost"
        => /\ (\/ call.matches < 5
               \/ call.matches - call.nans < 5
               \/ ~ConvexClockwise(call.slidepose1)
               \/ ~ConvexClockwise(call.slidepose2)
               \/ TwiceEnclosed(call.slidepose1) < 2 * 100
               \/ TwiceEnclosed(call.slidepose2) < 2 * 100
               \/ TwiceEnclosed(call.slidepose1) > 2 * 25000000
               \/ TwiceEnclosed(call.slidepose2) > 2 * 25000000)
              => call.ret = Infinity
           /\ call.homography_empty => call.ret = Infinity

\* the limits of the cost model on the area a Quad stores: the cost is
\* infinite exactly when one of the rejections applies (or the cost of the
\* matches is itself infinite), the rejections taken on Area(); and Area()
\* of a convex clockwise Quad is twice what its vertices enclose
StoredAreaLimits ==
    call.op = "matchcost"
        => /\ (\/ call.matches < 5
               \/ call.matches - call.nans < 5
               \/ ~ConvexClockwise(call.slidepose1)
               \/ ~ConvexClockwise(call.slidepose2)
               \/ Area(call.slidepose1) < 100
               \/ Area(call.slidepose2) < 100
               \/ Area(call.slidepose1) > 25000000
               \/ Area(call.slidepose2) > 25000000
               \/ call.residual = Infinity)
              <=> call.ret = Infinity
           /\ call.homography_empty => call.ret = Infinity
           /\ \A q \in QuadSamples : ConvexClockwise(q) => Area(q) = TwiceEnclosed(q)

\* C31: Area() of a convex clockwise Quad with integer vertices is the area
\* its vertices enclose, the sum of its two triangles each half the
\* magnitude of the cross product of its edges; for the slide rectangle
\* (0,0),(0,H),(W,H),(W,0) it is W*H.
C31_AreaIsEnclosed ==
    (call.op = "Quad" /\ ConvexClockwise(call.quad))
        => /\ 2 * Area(call.quad) = TwiceEnclosed(call.quad)
           /\ \A w, h \in 0..MaxCoord :
                 call.quad = SlideRect(w, h) => Area(call.quad) = w * h

\* what the constructor stores: the two cross products, not halved
AreaIsTwiceEnclosed ==
    (call.op = "Quad" /\ ConvexClockwise(call.quad))
        => /\ Area(call.quad) = TwiceEnclosed(call.quad)
           /\ \A w, h \in 0..MaxCoord :
                 call.quad = SlideRect(w, h) => Area(call.quad) = 2 * w * h

\* C32: every Quad the tracker hands to quadfilter, and so evaluates Inside
\* on, is convex and clockwise: the pose initialize locks on, the pose of
\* the differential match of each tracked frame, and the pose of each
\* keyframe.
C32_FilterOnlyConvex ==
    /\ ref # NoRef => ref.quad_convex
    /\ \A k \in 1..Len(stack) : stack[k].proc = "track" => stack[k].quad_convex

\* the steps of a tick of track
TrackEvents ==
    {"TrackEnd", "TrackFrame", "TrackMatch", "TrackRefine", "TrackLock", "TrackHard",
     "TrackCandMatch", "TrackCandRefine", "TrackCandCost", "TrackJudge", "TrackFinish"}

\* C33: once the timer has been stopped (the window destroyed in a yield of
\* the tick) no step of a tick of track touches the preview, and the tick
\* still runs to its end: its last step takes the keyframe decision, keeps
\* the pose of the frame in prev_slidepose and returns.  While the timer
\* runs the last step shows the frame.
C33_NoPreviewAfterStop ==
    [][/\ (event' \in TrackEvents /\ ~timer) => preview' = preview
       /\ event' \in {"TrackLock", "TrackFinish"}
          => /\ preview' = IF timer THEN hist'.frame ELSE preview
             /\ prev_slidepose' = hist'.slidepose
             /\ Len(stack') = Len(stack) - 1]_vars

\* a tick whose window was destroyed in one of its yields has ended; its
\* frame was tracked and not shown
C33_Witness ==
    /\ event \in {"TrackLock", "TrackFinish"}
    /\ ~window
    /\ ~timer
    /\ stack = <<>>
    /\ hist.frame >= 0
    /\ preview # hist.frame
    /\ prev_slidepose = hist.slidepose

\* C34: for a framerate f # 0 and a frame index i the stamp written is
\* HH:MM:SS.F, the frame field zero-padded to the number of digits of f, and
\* the parser reads exactly i back from it, for framerates of one, two and
\* three digits and for hours of any width.
C34_StampRoundTrip ==
    call.op = "stamp"
        => /\ Len(call.text) >= 9 + nchars(call.framerate)
           /\ call.text[Len(call.text) - nchars(call.framerate)] = "."
           /\ call.ok
           /\ call.val = call.index

\* what the serializer alone does: up to 99 hours the stamp has two digits
\* for each of hours, minutes and seconds and nchars(f) digits for the frame
StampShape ==
    (call.op = "stamp" /\ call.index < 100 * 3600 * call.framerate)
        => /\ Len(call.text) = 9 + nchars(call.framerate)
           /\ call.text[3] = ":" /\ call.text[6] = ":" /\ call.text[9] = "."
           /\ \A k \in (1..Len(call.text)) \ {3, 6, 9} : IsDigit(call.text[k])

\* the parser never reads a stamp the serializer wrote
StampNeverRead == call.op = "stamp" => ~call.ok

\* C35: a tick of track whose differential lock succeeds appends no
\* instruction and leaves slide_index as it is, also when it takes a new
\* keyframe for the deviation or deformation of the pose; an instruction is
\* appended only by the verdict of a hard frame that ended with a good
\* match, one at a time, and a tick reaches that verdict once: after it the
\* tick can only finish.
C35_LockEmitsNothing ==
    [][/\ event' = "TrackLock"
          => /\ sync_instructions' = sync_instructions
             /\ slide_index' = slide_index
             /\ ~Top.hardframe
       /\ event' \in (TrackEvents \ {"TrackJudge"})
          => sync_instructions' = sync_instructions
       /\ event' = "TrackJudge"
          => /\ Top.pc \in {"cand", "cost"}
             /\ stack'[Len(stack')].pc = "emit"
             /\ \/ sync_instructions' = sync_instructions
                \/ /\ Len(sync_instructions'.instructions)
                         = Len(sync_instructions.instructions) + 1
                   /\ stack'[Len(stack')].hardframe
                   /\ stack'[Len(stack')].goodmatch
       /\ (event' \in TrackEvents /\ stack # <<>> /\ Top.pc = "emit")
          => /\ event' = "TrackFinish"
             /\ Len(stack') = Len(stack) - 1]_vars

\* after a slide change was written, the next frame locked differentially
\* and became the keyframe for its deviation: still one instruction
C35_Witness ==
    /\ event = "TrackLock"
    /\ hist.large
    /\ hist.frame = frameskip + 1
    /\ ref.frame = hist.frame
    /\ Len(sync_instructions.instructions) = 1
    /\ slide_index = 1

\* C36: badcount stays in 0..7, at every boundary between ticks and inside
\* them, whatever the frames turn out to be; it is reduced only by the 4 of
\* a full scan, which is applied only at badcount >= 7, so the unsigned
\* counter never wraps; every other change is the reset to 0 or one more.
C36_BadcountBounded ==
    /\ [](badcount \in 0..7)
    /\ [][/\ badcount' < badcount
             => \/ badcount' = 0
                \/ /\ event' = "TrackHard"
                   /\ badcount >= 7
                   /\ badcount' = badcount - 4
          /\ badcount' > badcount => badcount' = badcount + 1]_vars

\* the boundary before the second full scan of a run of failed frames:
\* badcount is back at 7 after eleven failures
C36_Witness ==
    /\ stack = <<>>
    /\ processor = "track"
    /\ badcount = 7
    /\ hist.failed_run = 11

\* C37: the latch is false whenever no tick is executing: every tick that
\* set it has cleared it on the way out, also when it left the processor by
\* an exception, so ticks are never dropped for good.
C37_LatchReleased == stack = <<>> => ~processing

\* the latch is left set by nothing but an exception, and once it is left
\* set with no tick in flight every later tick is dropped: it stays set
\* and no tick body starts
LatchStuck ==
    [][/\ (stack' = <<>> /\ processing' /\ ~(stack = <<>> /\ processing))
          => (escaped' /\ ~escaped)
       /\ (stack = <<>> /\ processing) => (stack' = <<>> /\ processing')]_vars

\* C38: LoopFinished is handled only with no tick in flight: it is posted
\* by the cache hit of initialize and by track at the end of the video, in
\* the step that returns from the tick, so no yield of the posting tick
\* follows the post; and while the event is pending no tick stands in a
\* yield where the handler could run.
C38_FinishHandledOutsideTicks ==
    /\ [](handled < posted => (stack = <<>> \/ Top.pc = "entry"))
    /\ [][/\ event' = "OnSyncFinished" => (stack = <<>> /\ stack' = <<>>)
          /\ posted' # posted
             => /\ event' \in {"InitCacheHit", "TrackEnd"}
                /\ posted' = posted + 1
                /\ Len(stack') = Len(stack) - 1]_vars

\* the end of the video was posted by track and has been handled, with no
\* tick in flight
C38_Witness ==
    /\ event = "OnSyncFinished"
    /\ handled = 1
    /\ cache_writes = 1
    /\ appstate = "GeneratingVideo"
    /\ stack = <<>>

\* C39: GenLoop follows the stream: after each instruction it has processed,
\* stepped over or switched on, its slide is the index the stream itself
\* held after that instruction, and no switch leaves slide past the end of
\* the slide array it then reads.
C39_ReplaySafe ==
    gen.built =>
       /\ gen.last # "stray"
       /\ gen.last \in {"skip", "switch"} =>
             gen.slide = Replayed(sync_instructions, gen.instructions_it - 1).current_index

\* an instruction stamped as the one before it was stepped over, and the
\* slide of GenLoop is not the index of the stream
C39_SkipDiverges ==
    /\ gen.built
    /\ gen.last = "skip"
    /\ gen.instructions_it > 2
    /\ gen.slide # Replayed(sync_instructions, gen.instructions_it - 1).current_index

\* the slides never read past the end of the array
NoStrayRead == gen.built => gen.last # "stray" /\ gen.encoder.frame # Garbage

\* what stepping over does: the first instruction, stamped 0, was applied by
\* the constructor; any other instruction stepped over is not applied
SkipKeepsSlide ==
    [][event' = "GenSkip" => gen'.slide = gen.slide]_vars

\* the stamps of a stream are absolute, non-zero and strictly increasing
Rising(s) ==
    \A k \in 1..Len(s.instructions) :
       /\ ~s.instructions[k].relative
       /\ s.instructions[k].timestamp > (IF k = 1 THEN 0 ELSE s.instructions[k - 1].timestamp)

\* C40: over a stream of absolute, non-zero, strictly increasing stamps,
\* when GenLoop switches the slide for an instruction stamped T the encoder
\* has encoded exactly T frames.
C40_SwitchAtStamp ==
    gen.built /\ gen.last = "switch" /\ Rising(sync_instructions) =>
       gen.asked = gen.stamp

\* a switch over such a stream with fewer frames encoded than the stamp
C40_SwitchEarly ==
    /\ gen.built
    /\ gen.last = "switch"
    /\ Rising(sync_instructions)
    /\ gen.asked < gen.stamp

\* what the code does over such a stream: each instruction encodes one
\* frame less than the time since the one before, so the switch of the
\* k-th instruction comes k frames early
SwitchLags ==
    gen.built /\ gen.last = "switch" /\ Rising(sync_instructions) =>
       /\ gen.asked = gen.stamp - (gen.instructions_it - 1)
       /\ Len(gen.encoder.video) = gen.asked

\* the chunks of the loop of writeframe add up to the frames that remained
ChunksAddUp ==
    \A remaining \in 0..(3 * logtime) :
       /\ Len(EncodeChunks(NewEncoder, remaining).video) = remaining
       /\ EncodeChunks(NewEncoder, remaining) = EncodeChunksMut(NewEncoder, remaining)

====
